---------------------------- MODULE Spec2Model ----------------------------
(***************************************************************************)
(* rust-bandits: the experiment actors, the state store and the repository *)
(* that sit around a bandit policy.                                        *)
(*                                                                         *)
(* Actors are actix actors: every actor owns a FIFO mailbox, a handler is  *)
(* a synchronous fn (&mut self) and therefore one atomic step, a           *)
(* run_interval callback is one atomic step of the actor that runs between *)
(* two handlers, and do_send / send append to the receiver's mailbox.      *)
(* Rewards are exact rationals <<n, d>> (the f64 rounding is not           *)
(* modelled); an Option is <<>> (None) or <<x>> (Some(x)).                 *)
(***************************************************************************)
EXTENDS Integers, Sequences, FiniteSets, Bags, TLC

(***************************************************************************)
(* Bounds of the model.                                                    *)
(***************************************************************************)
MaxActors == 2
MaxSpawned == 1
MaxIds == 2
MaxCmds == 3
MaxMailbox == 2
MaxStoreMailbox == 2
MaxRequests == 2
MaxArms == 2
MaxCount == 3
MaxDraws == 2
MaxTime == 1

(***************************************************************************)
(* Rationals: <<n, d>> with d > 0 and gcd(n, d) = 1.                       *)
(***************************************************************************)
Abs(x) == IF x < 0 THEN -x ELSE x

RECURSIVE Gcd(_, _)
Gcd(a, b) == IF b = 0 THEN a ELSE Gcd(b, a % b)

Rat(n, d) ==
    LET g == Gcd(Abs(n), Abs(d))
        s == IF d < 0 THEN -1 ELSE 1
    IN  <<(s * n) \div g, (s * d) \div g>>

RatOfInt(i) == <<i, 1>>
RatAdd(x, y) == Rat(x[1] * y[2] + y[1] * x[2], x[2] * y[2])
RatSub(x, y) == Rat(x[1] * y[2] - y[1] * x[2], x[2] * y[2])
RatDivInt(x, k) == Rat(x[1], x[2] * k)
RatLess(x, y) == x[1] * y[2] < y[1] * x[2]
RatLeq(x, y) == x[1] * y[2] <= y[1] * x[2]

(***************************************************************************)
(* Option<T>.                                                              *)
(***************************************************************************)
None == <<>>
Some(x) == <<x>>
IsSome(o) == o # <<>>
Unwrap(o) == o[1]
UnwrapOrDefault(o) == IF o = <<>> THEN 0 ELSE o[1]

(***************************************************************************)
(* Results of the policy and of the experiment actor.                      *)
(***************************************************************************)
NoArm == -1
NoStats == <<>>
Ok == [kind |-> "Ok", arm |-> NoArm, stats |-> NoStats]
OkArm(a) == [kind |-> "Ok", arm |-> a, stats |-> NoStats]
OkStats(s) == [kind |-> "Ok", arm |-> NoArm, stats |-> s]
ArmNotFound(a) == [kind |-> "ArmNotFound", arm |-> a, stats |-> NoStats]
NoArmsAvailable == [kind |-> "NoArmsAvailable", arm |-> NoArm, stats |-> NoStats]
NoPolicy == [kind |-> "NoPolicy", arm |-> NoArm, stats |-> NoStats]

(***************************************************************************)
(* get_timestamp(): the system clock, in whole seconds.                    *)
(***************************************************************************)
VARIABLE now

(***************************************************************************)
(* EpsilonGreedyArm.                                                       *)
(***************************************************************************)
EpsilonGreedyArmNew(initial_reward, initial_count) ==
    [reward |-> RatOfInt(initial_reward), count |-> initial_count, is_active |-> TRUE]

EpsilonGreedyArmReset(arm, cumulative_reward, count) ==
    [arm EXCEPT !.reward = RatOfInt(UnwrapOrDefault(cumulative_reward)),
                !.count = UnwrapOrDefault(count)]

\* An update that takes the reward and does not count the pull.
EpsilonGreedyArmUpdateNoCount(arm, reward) ==
    [arm EXCEPT !.reward = RatOfInt(reward)]

EpsilonGreedyArmUpdate(arm, reward) ==
    LET c == arm.count + 1
    IN  [arm EXCEPT !.count = c,
                    !.reward = RatAdd(arm.reward,
                                      RatDivInt(RatSub(RatOfInt(reward), arm.reward), c))]

EpsilonGreedyArmStats(arm) ==
    [pulls |-> arm.count, mean_reward |-> arm.reward, is_active |-> arm.is_active]

(***************************************************************************)
(* UcbArm.                                                                 *)
(***************************************************************************)
UcbArmNew(initial_reward, initial_count) ==
    [reward |-> RatOfInt(initial_reward), count |-> initial_count, is_active |-> TRUE]

\* A reset that forgets the statistics it is given.
UcbArmResetToZero(arm, cumulative_reward, count) ==
    [arm EXCEPT !.reward = RatOfInt(0), !.count = 0]

UcbArmReset(arm, cumulative_reward, count) ==
    [arm EXCEPT !.reward = RatOfInt(UnwrapOrDefault(cumulative_reward)),
                !.count = UnwrapOrDefault(count)]

UcbArmUpdate(arm, reward) ==
    LET c == arm.count + 1
    IN  [arm EXCEPT !.count = c,
                    !.reward = RatAdd(arm.reward,
                                      RatDivInt(RatSub(RatOfInt(reward), arm.reward), c))]

UcbArmStats(arm) ==
    [pulls |-> arm.count, mean_reward |-> arm.reward, is_active |-> arm.is_active]

(***************************************************************************)
(* ThomsonSamplingArm.  The half-life is one second when there is one, so  *)
(* that the decay exp(-dt * ln 2 / h) of a whole number dt of seconds is   *)
(* 2^(-dt).  EPS, 1e-6 in the source, is 1e-3 here, which keeps the exact  *)
(* arithmetic within the integers of the model checker: it is above zero   *)
(* and below every prior and reward.                                       *)
(***************************************************************************)
EPS == Rat(1, 1000)

ThomsonSamplingArmNew(initial_reward, initial_count, halflife_seconds) ==
    [alpha |-> RatOfInt(1 + initial_reward),
     beta |-> RatOfInt(1 + initial_count - initial_reward),
     count |-> initial_count,
     halflife_seconds |-> halflife_seconds,
     last_ts |-> now,
     is_active |-> TRUE]

ThomsonSamplingArmReset(arm, cumulative_reward, count) ==
    IF IsSome(cumulative_reward) /\ IsSome(count)
    THEN [arm EXCEPT !.alpha = RatOfInt(Unwrap(cumulative_reward) + 1),
                     !.beta = RatOfInt(Unwrap(count) - Unwrap(cumulative_reward) + 1),
                     !.count = Unwrap(count),
                     !.last_ts = now]
    ELSE [arm EXCEPT !.alpha = RatOfInt(1), !.beta = RatOfInt(1), !.count = 0,
                     !.last_ts = now]

DecayWeight(arm, timestamp) ==
    IF IsSome(arm.halflife_seconds)
    THEN LET dt == timestamp - arm.last_ts
         IN  IF dt >= 0 THEN Rat(1, 2 ^ dt) ELSE Rat(2 ^ (0 - dt), 1)
    ELSE RatOfInt(1)

\* An apply_discount without the floor at EPS.
ApplyDiscountNoFloor(arm, timestamp) ==
    LET decay == DecayWeight(arm, timestamp)
    IN  [arm EXCEPT !.alpha = Rat(arm.alpha[1] * decay[1], arm.alpha[2] * decay[2]),
                    !.beta = Rat(arm.beta[1] * decay[1], arm.beta[2] * decay[2]),
                    !.last_ts = timestamp]

ApplyDiscount(arm, timestamp) ==
    LET decay == DecayWeight(arm, timestamp)
        a == Rat(arm.alpha[1] * decay[1], arm.alpha[2] * decay[2])
        b == Rat(arm.beta[1] * decay[1], arm.beta[2] * decay[2])
    IN  [arm EXCEPT !.alpha = IF RatLess(a, EPS) THEN EPS ELSE a,
                    !.beta = IF RatLess(b, EPS) THEN EPS ELSE b,
                    !.last_ts = timestamp]

\* sample: Beta::new(alpha, beta) is an error unless both are above zero.
ThomsonSamplingArmSample(arm) ==
    RatLess(RatOfInt(0), arm.alpha) /\ RatLess(RatOfInt(0), arm.beta)

ThomsonSamplingArmUpdate(arm, reward, timestamp) ==
    LET d == ApplyDiscount(arm, timestamp)
    IN  [d EXCEPT !.alpha = RatAdd(d.alpha, RatOfInt(reward)),
                  !.beta = RatAdd(d.beta, RatOfInt(1 - reward)),
                  !.count = d.count + 1]

ThomsonSamplingArmStats(arm) ==
    LET sum == RatAdd(arm.alpha, arm.beta)
    IN  [pulls |-> arm.count,
         mean_reward |-> IF sum[1] = 0 THEN RatOfInt(0)
                         ELSE Rat(arm.alpha[1] * sum[2], arm.alpha[2] * sum[1]),
         is_active |-> arm.is_active]

(***************************************************************************)
(* The methods of the arms, by the type of the policy that holds them.     *)
(***************************************************************************)
ArmNew(p, initial_reward, initial_count) ==
    CASE p.type = "ThomsonSampling" ->
            ThomsonSamplingArmNew(initial_reward, initial_count, p.halflife_seconds)
      [] p.type = "Ucb" -> UcbArmNew(initial_reward, initial_count)
      [] OTHER -> EpsilonGreedyArmNew(initial_reward, initial_count)

ArmReset(p, arm, cumulative_reward, count) ==
    CASE p.type = "ThomsonSampling" -> ThomsonSamplingArmReset(arm, cumulative_reward, count)
      [] p.type = "Ucb" -> UcbArmReset(arm, cumulative_reward, count)
      [] OTHER -> EpsilonGreedyArmReset(arm, cumulative_reward, count)

ArmUpdate(p, arm, reward, timestamp) ==
    CASE p.type = "ThomsonSampling" -> ThomsonSamplingArmUpdate(arm, reward, timestamp)
      [] p.type = "Ucb" -> UcbArmUpdate(arm, reward)
      [] OTHER -> EpsilonGreedyArmUpdate(arm, reward)

ArmStats(p, arm) ==
    CASE p.type = "ThomsonSampling" -> ThomsonSamplingArmStats(arm)
      [] p.type = "Ucb" -> UcbArmStats(arm)
      [] OTHER -> EpsilonGreedyArmStats(arm)

(***************************************************************************)
(* EpsilonGreedy: the policy an experiment owns.  A policy operation       *)
(* yields the policy after it and its result.                              *)
(***************************************************************************)
EpsilonGreedyNew(epsilon, seed) ==
    [type |-> "EpsilonGreedy", epsilon |-> epsilon, epsilon_decay |-> None,
     seed |-> seed, rng |-> 0, arms |-> <<>>]

UcbNew(alpha, seed) ==
    [type |-> "Ucb", alpha |-> alpha, seed |-> seed, rng |-> 0, arms |-> <<>>]

ThomsonSamplingNew(halflife_seconds, seed) ==
    [type |-> "ThomsonSampling", halflife_seconds |-> halflife_seconds, seed |-> seed,
     rng |-> 0, arms |-> <<>>]

\* policy_type: the type with its parameters and the seed.
PolicyTypeOf(p) == [f \in DOMAIN p \ {"rng", "arms"} |-> p[f]]

ActiveArms(p) == {a \in DOMAIN p.arms : p.arms[a].is_active}

PutArm(arms, arm_id, arm) ==
    [a \in (DOMAIN arms) \cup {arm_id} |-> IF a = arm_id THEN arm ELSE arms[a]]

RemoveArm(arms, arm_id) ==
    [a \in (DOMAIN arms) \ {arm_id} |-> arms[a]]

PolicyReset(p, arm_id, cumulative_reward, count) ==
    IF IsSome(arm_id)
    THEN IF Unwrap(arm_id) \in DOMAIN p.arms
         THEN [policy |-> [p EXCEPT !.arms[Unwrap(arm_id)] =
                              ArmReset(p, @, cumulative_reward, count)],
               result |-> Ok]
         ELSE [policy |-> p, result |-> ArmNotFound(Unwrap(arm_id))]
    ELSE [policy |-> [p EXCEPT !.arms =
                         [a \in DOMAIN p.arms |-> ArmReset(p, p.arms[a], None, None)]],
          result |-> Ok]

PolicyAddArm(p, cumulative_reward, count) ==
    LET arm_id == Cardinality(DOMAIN p.arms)
    IN  [policy |-> [p EXCEPT !.arms =
                        PutArm(p.arms, arm_id, ArmNew(p, cumulative_reward, count))],
         result |-> OkArm(arm_id)]

PolicySetActive(p, arm_id, flag) ==
    IF arm_id \in DOMAIN p.arms
    THEN [policy |-> [p EXCEPT !.arms[arm_id].is_active = flag], result |-> Ok]
    ELSE [policy |-> p, result |-> ArmNotFound(arm_id)]

PolicyDisableArm(p, arm_id) == PolicySetActive(p, arm_id, FALSE)
PolicyEnableArm(p, arm_id) == PolicySetActive(p, arm_id, TRUE)

\* A delete_arm that does not look at what HashMap::remove returns.
PolicyDeleteArmQuiet(p, arm_id) ==
    [policy |-> [p EXCEPT !.arms = RemoveArm(p.arms, arm_id)], result |-> Ok]

PolicyDeleteArm(p, arm_id) ==
    IF arm_id \in DOMAIN p.arms
    THEN [policy |-> [p EXCEPT !.arms = RemoveArm(p.arms, arm_id)], result |-> Ok]
    ELSE [policy |-> p, result |-> ArmNotFound(arm_id)]

PolicyUpdate(p, timestamp, arm_id, reward) ==
    IF arm_id \in DOMAIN p.arms
    THEN [policy |-> [p EXCEPT !.arms[arm_id] = ArmUpdate(p, @, reward, timestamp)],
          result |-> Ok]
    ELSE [policy |-> p, result |-> ArmNotFound(arm_id)]

\* A batch that notes the first error and goes on with the updates after it.
RECURSIVE PolicyUpdateBatchSkipping(_, _)
PolicyUpdateBatchSkipping(p, updates) ==
    IF updates = <<>>
    THEN [policy |-> p, result |-> Ok]
    ELSE LET u == Head(updates)
             r == PolicyUpdate(p, u[1], u[2], u[3])
         IN  IF r.result.kind = "Ok"
             THEN PolicyUpdateBatchSkipping(r.policy, Tail(updates))
             ELSE [policy |-> PolicyUpdateBatchSkipping(p, Tail(updates)).policy,
                   result |-> r.result]

\* try_for_each: the updates are applied in the order given and the first
\* failing one ends the batch, the earlier ones staying applied.
RECURSIVE PolicyUpdateBatch(_, _)
PolicyUpdateBatch(p, updates) ==
    IF updates = <<>>
    THEN [policy |-> p, result |-> Ok]
    ELSE LET u == Head(updates)
             r == PolicyUpdate(p, u[1], u[2], u[3])
         IN  IF r.result.kind = "Ok"
             THEN PolicyUpdateBatch(r.policy, Tail(updates))
             ELSE r

PolicyStats(p) == [a \in DOMAIN p.arms |-> ArmStats(p, p.arms[a])]

\* HashMap::iter: the arms come in the order of the map's buckets, which
\* depends on the keys of the map's RandomState: every order of the handles
\* is possible, and two maps with the same arms need not have the same.
IterOrders(arms) ==
    LET n == Cardinality(DOMAIN arms)
    IN  {f \in [1..n -> DOMAIN arms] : \A i, j \in 1..n : i # j => f[i] # f[j]}

\* An iteration that does not filter the arms.
ActiveInAll(p, order) == order

\* filter(|(_, arm)| arm.is_active) over the arms in the order given.
ActiveIn(p, order) ==
    LET IsActive(x) == p.arms[x].is_active
    IN  SelectSeq(order, IsActive)

\* IteratorRandom::choose: the generator selects one of the n candidates,
\* by its position; pick stands for the numbers the generator gives.
Picks(p) == 1..(IF DOMAIN p.arms = {} THEN 1 ELSE Cardinality(DOMAIN p.arms))
Choose(seq, pick) == seq[((pick - 1) % Len(seq)) + 1]

\* max_by(|a, b| a.partial_cmp(b)) on the rewards: Iterator::max_by returns
\* the last of the elements that are maximal.
MaxByReward(p, seq) ==
    LET R(i) == p.arms[seq[i]].reward
        i == CHOOSE k \in 1..Len(seq) :
                /\ \A j \in 1..Len(seq) : RatLeq(R(j), R(k))
                /\ \A j \in (k + 1)..Len(seq) : RatLess(R(j), R(k))
    IN  seq[i]

\* EpsilonGreedy::draw on arms iterated in the order given, when the random
\* number is below epsilon (explore: one of the active arms is chosen) or
\* not (exploit: the active arm of the best reward).
EpsilonGreedyDraw(p, order, below, pick) ==
    LET active == ActiveIn(p, order)
    IN  IF active = <<>> THEN NoArmsAvailable
        ELSE IF below THEN OkArm(Choose(active, pick))
        ELSE OkArm(MaxByReward(p, active))

\* draw: what it can return, for the random numbers the generator can give
\* and the orders the map can have.  The policy's arms are left as they
\* are; its random generator advances (rng counts the draws made since the
\* generator was seeded).
PolicyDrawResults(p) ==
    LET branches == (IF RatLess(RatOfInt(0), p.epsilon) THEN {TRUE} ELSE {})
                    \cup (IF RatLess(p.epsilon, RatOfInt(1)) THEN {FALSE} ELSE {})
    IN  {EpsilonGreedyDraw(p, order, below, pick) :
            order \in IterOrders(p.arms), below \in branches, pick \in Picks(p)}

\* A Ucb::draw without the warm-up: the active arm of the best reward.
UcbDrawScoreOnly(p, order, pick) ==
    IF ActiveIn(p, order) = <<>>
    THEN {[policy |-> p, result |-> NoArmsAvailable]}
    ELSE {[policy |-> p, result |-> OkArm(MaxByReward(p, ActiveIn(p, order)))]}

\* Ucb::draw on arms iterated in the order given: one of the active arms
\* that were never pulled, chosen at random, while there is one; otherwise
\* the active arm of the best score
\* reward + alpha * ln(total_count) / (2 * count).  The score is the reward
\* when alpha is 0 or one pull was made in all; otherwise the order of the
\* scores is left open, and any active arm may be the best.
UcbDrawWith(p, order, pick) ==
    LET IsWarm(x) == p.arms[x].is_active /\ p.arms[x].count = 0
        warm == SelectSeq(order, IsWarm)
        active == ActiveIn(p, order)
        total_count == BagCardinality([a \in ActiveArms(p) |-> p.arms[a].count])
    IN  IF warm # <<>>
        THEN {[policy |-> [p EXCEPT !.rng = @ + 1], result |-> OkArm(Choose(warm, pick))]}
        ELSE IF active = <<>>
             THEN {[policy |-> p, result |-> NoArmsAvailable]}
             ELSE IF p.alpha = RatOfInt(0) \/ total_count = 1
                  THEN {[policy |-> p, result |-> OkArm(MaxByReward(p, active))]}
                  ELSE {[policy |-> p, result |-> OkArm(x)] : x \in ActiveArms(p)}

UcbDraw(p) ==
    UNION {UcbDrawWith(p, order, pick) : order \in IterOrders(p.arms), pick \in Picks(p)}

\* ThomsonSampling::draw: the active arms are discounted to the time of the
\* draw, every active arm is sampled, and the arm of the best sample among
\* those whose sampling succeeded is returned; any of them can have it.
ThomsonSamplingDraw(p) ==
    LET discounted ==
            [p EXCEPT !.arms = [a \in DOMAIN p.arms |->
                                  IF p.arms[a].is_active
                                  THEN ApplyDiscount(p.arms[a], now)
                                  ELSE p.arms[a]],
                      !.rng = IF ActiveArms(p) = {} THEN @ ELSE @ + 1]
        sampled == {a \in ActiveArms(discounted) :
                       ThomsonSamplingArmSample(discounted.arms[a])}
    IN  IF sampled = {}
        THEN {[policy |-> discounted, result |-> NoArmsAvailable]}
        ELSE {[policy |-> discounted, result |-> OkArm(a)] : a \in sampled}

PolicyDraw(p) ==
    CASE p.type = "ThomsonSampling" -> ThomsonSamplingDraw(p)
      [] p.type = "Ucb" -> UcbDraw(p)
      [] OTHER ->
            {[policy |-> [p EXCEPT !.rng = @ + 1], result |-> r] : r \in PolicyDrawResults(p)}

\* A clone_box that builds a new policy of the same type, without the arms.
CloneBoxNew(p) == [p EXCEPT !.arms = <<>>, !.rng = 0]

\* CloneBoxedPolicy::clone_box: Box::new(self.clone()), a deep copy.
CloneBox(p) == p

(***************************************************************************)
(* The messages of the Experiment actor.                                   *)
(***************************************************************************)
Msg(type, arm_id, reward, count, timestamp, updates) ==
    [type |-> type, arm_id |-> arm_id, reward |-> reward, count |-> count,
     timestamp |-> timestamp, updates |-> updates]

Ping == Msg("Ping", None, None, None, 0, <<>>)
Delete == Msg("Delete", None, None, None, 0, <<>>)
Reset(arm_id, cumulative_reward, count) ==
    Msg("Reset", arm_id, cumulative_reward, count, 0, <<>>)
AddArm(initial_reward, initial_count) ==
    Msg("AddArm", None, initial_reward, initial_count, 0, <<>>)
DisableArm(arm_id) == Msg("DisableArm", Some(arm_id), None, None, 0, <<>>)
EnableArm(arm_id) == Msg("EnableArm", Some(arm_id), None, None, 0, <<>>)
DeleteArm(arm_id) == Msg("DeleteArm", Some(arm_id), None, None, 0, <<>>)
Draw == Msg("Draw", None, None, None, 0, <<>>)
Update(timestamp, arm_id, reward) ==
    Msg("Update", Some(arm_id), Some(reward), None, timestamp, <<>>)
UpdateBatch(updates) == Msg("UpdateBatch", None, None, None, 0, updates)
GetStats == Msg("GetStats", None, None, None, 0, <<>>)

\* The commands that go through with_policy_mut.
PolicyCommandTypes ==
    {"Reset", "AddArm", "DisableArm", "EnableArm", "DeleteArm", "Draw", "Update",
     "UpdateBatch", "GetStats"}

(***************************************************************************)
(* Handler<UpdateBatch> sorts the updates by timestamp before it hands     *)
(* them to the policy.  sort_unstable_by leaves the order of updates with  *)
(* equal timestamps open: every ascending arrangement is a possible one.   *)
(***************************************************************************)
IsAscending(us) == \A i \in 1..(Len(us) - 1) : us[i][1] <= us[i + 1][1]

Arrangements(us) ==
    LET n == Len(us)
        perms == {f \in [1..n -> 1..n] : \A i, j \in 1..n : i # j => f[i] # f[j]}
    IN  {[i \in 1..n |-> us[f[i]]] : f \in perms}

\* A handler that hands the updates over in the order they were submitted in.
SubmittedOrder(us) == {us}

SortedByTimestamp(us) == {v \in Arrangements(us) : IsAscending(v)}

(***************************************************************************)
(* Experiment::with_policy_mut and the handlers.  A handler yields the set *)
(* of its possible outcomes: the actor's policy after it, the result sent  *)
(* back, whether DeleteState was sent and whether the actor stopped.       *)
(***************************************************************************)
Outcome(policy, result) ==
    [policy |-> policy, result |-> result, delete_state |-> FALSE, stop |-> FALSE]

\* A Handler<Delete> that does not stop the actor.
HandleDeleteNoStop(policy) ==
    [policy |-> policy, result |-> Ok, delete_state |-> TRUE, stop |-> FALSE]

\* Handler<Delete>: DeleteState goes to the state store, the context is
\* stopped and Ok returned, whether or not there is a policy.
HandleDelete(policy) ==
    [policy |-> policy, result |-> Ok, delete_state |-> TRUE, stop |-> TRUE]

\* A with_policy_mut that runs the closure on a copy of the policy.
WithPolicyMutOnCopy(policy, results) ==
    IF policy = None
    THEN {Outcome(None, NoPolicy)}
    ELSE {Outcome(policy, r.result) : r \in results}

\* A with_policy_mut that answers Ok when there is no policy.
WithPolicyMutSilent(policy, results) ==
    IF policy = None
    THEN {Outcome(None, Ok)}
    ELSE {Outcome(Some(r.policy), r.result) : r \in results}

\* A with_policy_mut that drops the policy when the closure returns an error.
WithPolicyMutPoison(policy, results) ==
    IF policy = None
    THEN {Outcome(None, NoPolicy)}
    ELSE {Outcome(IF r.result.kind = "Ok" THEN Some(r.policy) ELSE None, r.result) :
             r \in results}

\* with_policy_mut: NoPolicy without a policy; otherwise the closure runs on
\* the owned policy, results being the outcomes it can have there.
WithPolicyMut(policy, results) ==
    IF policy = None
    THEN {Outcome(None, NoPolicy)}
    ELSE {Outcome(Some(r.policy), r.result) : r \in results}

HandleMsg(policy, msg) ==
    LET p == Unwrap(policy)
    IN  CASE msg.type = "Ping" -> {Outcome(policy, Ok)}
          [] msg.type = "Delete" -> {HandleDelete(policy)}
          [] msg.type = "Reset" ->
                WithPolicyMut(policy, {PolicyReset(p, msg.arm_id, msg.reward, msg.count)})
          [] msg.type = "AddArm" ->
                WithPolicyMut(policy, {PolicyAddArm(p, UnwrapOrDefault(msg.reward),
                                                    UnwrapOrDefault(msg.count))})
          [] msg.type = "DisableArm" ->
                WithPolicyMut(policy, {PolicyDisableArm(p, Unwrap(msg.arm_id))})
          [] msg.type = "EnableArm" ->
                WithPolicyMut(policy, {PolicyEnableArm(p, Unwrap(msg.arm_id))})
          [] msg.type = "DeleteArm" ->
                WithPolicyMut(policy, {PolicyDeleteArm(p, Unwrap(msg.arm_id))})
          [] msg.type = "Draw" ->
                WithPolicyMut(policy, PolicyDraw(p))
          [] msg.type = "Update" ->
                WithPolicyMut(policy, {PolicyUpdate(p, msg.timestamp, Unwrap(msg.arm_id),
                                                    Unwrap(msg.reward))})
          [] msg.type = "UpdateBatch" ->
                WithPolicyMut(policy, {PolicyUpdateBatch(p, updates) :
                                          updates \in SortedByTimestamp(msg.updates)})
          [] msg.type = "GetStats" ->
                WithPolicyMut(policy, {[policy |-> p, result |-> OkStats(PolicyStats(p))]})

(***************************************************************************)
(* Maps (HashMap): functions over the set of their keys.                   *)
(***************************************************************************)
EmptyMap == <<>>
MapPut(m, k, v) == [x \in (DOMAIN m) \cup {k} |-> IF x = k THEN v ELSE m[x]]
MapRemove(m, k) == [x \in (DOMAIN m) \ {k} |-> m[x]]
MapGet(m, k) == IF k \in DOMAIN m THEN Some(m[k]) ELSE None

(***************************************************************************)
(* The persisted document.  A policy is written with its parameters and    *)
(* its arms, and with its field rng as MaybeSeededRng's derived Serialize  *)
(* writes it: a map with the one entry "seed", the generator being         *)
(* skipped.  Deserialize for MaybeSeededRng reads an Option<u64> (a number *)
(* or null) in the place of rng and seeds a new generator from it; a map   *)
(* there is an error (invalid type), which fails the whole document.  The  *)
(* file is missing, holds a whole document, or holds a part of one (which  *)
(* does not parse).                                                        *)
(***************************************************************************)
SerializePolicy(p) ==
    [f \in DOMAIN p \ {"seed"} |->
        IF f = "rng" THEN [json |-> "map", seed |-> p.seed] ELSE p[f]]

\* Some(policy), or None for the error.
DeserializePolicy(d) ==
    IF d.rng.json = "option"
    THEN Some([f \in DOMAIN d \cup {"seed"} |->
                  CASE f = "seed" -> d.rng.seed
                    [] f = "rng" -> 0
                    [] OTHER -> d[f]])
    ELSE None

Serialize(store) == [id \in DOMAIN store |-> SerializePolicy(store[id])]

FileMissing == [kind |-> "Missing", catalog |-> EmptyMap]
FilePartial == [kind |-> "Partial", catalog |-> EmptyMap]
FileDoc(catalog) == [kind |-> "Doc", catalog |-> catalog]

StateStoreNewEmpty(file) == EmptyMap

\* StateStore::new: the catalog read from the file, empty when the file is
\* missing or does not parse.
StateStoreNew(file) ==
    IF /\ file.kind = "Doc"
       /\ \A id \in DOMAIN file.catalog : DeserializePolicy(file.catalog[id]) # None
    THEN [id \in DOMAIN file.catalog |-> Unwrap(DeserializePolicy(file.catalog[id]))]
    ELSE EmptyMap

(***************************************************************************)
(* The state.                                                              *)
(***************************************************************************)
VARIABLES
    alive,          \* the process runs
    experiments,    \* Repository.experiments: id -> [address, policy_type]
    loading,        \* Repository::load_experiments awaits the answer to LoadAllStates
    nextId,         \* the next fresh experiment id (Uuid::new_v4)
    actors,         \* the Experiment actors, by address
    storeMailbox,   \* the StateStore's mailbox
    storage,        \* StateStore.storage: id -> policy
    persisting,     \* the StateStore is inside std::fs::write
    disk,           \* the file at config.path
    last,           \* what the step just taken was, with the result it returned
    nCmds,          \* commands sent so far
    storeRunning,   \* the StateStore actor runs
    requests        \* the HTTP requests in flight, with their hold on the repository's lock

vars == <<alive, experiments, loading, nextId, actors, storeMailbox, storage, persisting,
          disk, last, nCmds, storeRunning, requests, now>>

Actors == 1..MaxActors
Ids == 1..MaxIds
Requests == 1..MaxRequests

\* A request: the route it runs (op), the experiment it is about, and where
\* it stands: "idle", "holding" (it holds the guard and has yet to call the
\* repository), "awaiting" (it holds the guard and awaits the answer of the
\* actor, whose mailbox holds its message at position pos), "done" (it has
\* the result and still holds the guard).
NoRequest == [op |-> "none", id |-> 0, pc |-> "idle", pos |-> 0]

NoLoad == [st |-> "idle", val |-> None]
NotLoading == [st |-> "no", catalog |-> <<>>]

NoActor ==
    [state |-> "none", id |-> 0, policy |-> None, supervised |-> FALSE, addr |-> FALSE,
     mailbox |-> <<>>, load |-> NoLoad, deleted |-> FALSE]

\* last: "handled" (an Experiment handler ran: actor, message, result and
\* whether the actor held a policy when it ran), "restarted" (a Supervisor
\* restarted the actor), "tick" (a persist tick of the store ended with
\* result), "boot" (the process started), "loaded" (load_experiments returned Ok),
\* "created", "deleted", "cleared", "listed" (the repository method returned
\* result), "replied" (a forwarder returned the error result without
\* sending), "saved" (the save tick of the actor fired: actor and whether it
\* held a policy), "other".
Last(kind, actor, msg, result, had_policy) ==
    [kind |-> kind, actor |-> actor, msg |-> msg, result |-> result,
     had_policy |-> had_policy]
Other == Last("other", 0, Ping, Ok, FALSE)
PersistenceError == [kind |-> "PersistenceError", arm |-> NoArm, stats |-> NoStats]
ExperimentNotFound(experiment_id) ==
    [kind |-> "ExperimentNotFound", experiment_id |-> experiment_id]
OkId(experiment_id) == [kind |-> "Ok", experiment_id |-> experiment_id]
OkList(listing) == [kind |-> "Ok", listing |-> listing]

\* The policy the test suites and the scenarios of the specification use.
Epsilon == Rat(1, 100)
Seed == 1234
NewPolicy == EpsilonGreedyNew(Epsilon, Some(Seed))

\* The file the first run finds: missing, or a document with experiment 1,
\* whose policy has one arm added with reward 5 and count 2, and whose rng
\* is given in the form the reader takes (the seed itself).
SavedPolicy == PolicyAddArm(NewPolicy, 5, 2).policy
InitFiles ==
    {FileMissing,
     FileDoc([id \in {1} |->
                [SerializePolicy(SavedPolicy) EXCEPT
                    !.rng = [json |-> "option", seed |-> SavedPolicy.seed]]])}

Init ==
    /\ alive = TRUE
    /\ experiments = EmptyMap
    /\ loading = NotLoading
    /\ nextId = 2
    /\ actors = [a \in Actors |-> NoActor]
    /\ storeMailbox = <<>>
    /\ disk \in InitFiles
    /\ storage = StateStoreNew(disk)
    /\ persisting = FALSE
    /\ last = Other
    /\ nCmds = 0
    /\ storeRunning = TRUE
    /\ requests = [r \in Requests |-> NoRequest]
    /\ now = 0

(***************************************************************************)
(* Actor::started for Experiment: an actor without policy spawns the       *)
(* future that asks the state store for its snapshot; run_interval is      *)
(* installed either way.                                                   *)
(***************************************************************************)
Started(act) ==
    [act EXCEPT !.state = "running",
                !.load = IF act.policy = None THEN [st |-> "tosend", val |-> None]
                         ELSE NoLoad]

\* Experiment::new, not yet started.
ExperimentNew(id, policy, supervised) ==
    [NoActor EXCEPT !.id = id, !.policy = policy, !.supervised = supervised, !.addr = TRUE]

FreeActors == {a \in Actors : actors[a].state = "none"}
LiveIds == {actors[a].id : a \in {b \in Actors : actors[b].state = "running"}}

\* A create_experiment that starts the actor and leaves the map as it was.
CreateInUnregistered(exps, acts, experiment_id, policy) ==
    LET free == {a \in Actors : acts[a].state = "none"}
        address == CHOOSE a \in free : \A b \in free : a <= b
    IN  [experiments |-> exps,
         actors |-> [acts EXCEPT ![address] =
                        Started(ExperimentNew(experiment_id, Some(policy), TRUE))]]

\* Repository::create_experiment on the map exps and the actors acts: the
\* actor is started under a Supervisor with the policy and the entry is
\* inserted for the id.  HashMap::insert replaces the entry the id had, if
\* it had one, and the address in it is dropped.
CreateIn(exps, acts, experiment_id, policy) ==
    LET free == {a \in Actors : acts[a].state = "none"}
        address == CHOOSE a \in free : \A b \in free : a <= b
        replaced == [a \in Actors |->
                        IF experiment_id \in DOMAIN exps /\ exps[experiment_id].address = a
                        THEN [acts[a] EXCEPT !.addr = FALSE]
                        ELSE acts[a]]
    IN  [experiments |-> MapPut(exps, experiment_id,
                               [address |-> address, policy_type |-> PolicyTypeOf(policy)]),
         actors |-> [replaced EXCEPT ![address] =
                        Started(ExperimentNew(experiment_id, Some(policy), TRUE))]]

(***************************************************************************)
(* Repository::create_experiment(None, policy), as the create route calls  *)
(* it, with a fresh id.                                                    *)
(***************************************************************************)
CreateExperiment(policy) ==
    /\ alive
    /\ loading = NotLoading
    /\ FreeActors # {}
    /\ nextId <= MaxIds
    /\ LET r == CreateIn(experiments, actors, nextId, policy)
       IN  /\ actors' = r.actors
           /\ experiments' = r.experiments
    /\ nextId' = nextId + 1
    /\ last' = Last("created", 0, Ping, OkId(nextId), FALSE)
    /\ UNCHANGED <<now, storeRunning, requests, alive, loading, storeMailbox, storage, persisting, disk, nCmds>>

(***************************************************************************)
(* Experiment::new(id, None, ..) started: the restart of an experiment     *)
(* whose actor is gone, with an id handed out earlier.                     *)
(***************************************************************************)
StartExperiment(id) ==
    /\ alive
    /\ FreeActors # {}
    /\ id < nextId
    /\ id \notin LiveIds
    /\ id \notin DOMAIN experiments
    /\ loading = NotLoading
    /\ LET address == CHOOSE a \in FreeActors : \A b \in FreeActors : a <= b
       IN  actors' = [actors EXCEPT ![address] = Started(ExperimentNew(id, None, FALSE))]
    /\ last' = Other
    /\ UNCHANGED <<now, storeRunning, requests, alive, experiments, loading, nextId, storeMailbox, storage, persisting,
                   disk, nCmds>>

(***************************************************************************)
(* The messages of the StateStore; from is the actor that sent it.         *)
(***************************************************************************)
StoreMsg(type, experiment_id, policy, from) ==
    [type |-> type, experiment_id |-> experiment_id, policy |-> policy, from |-> from]

SaveState(experiment_id, policy, from) ==
    StoreMsg("SaveState", experiment_id, Some(policy), from)
DeleteState(experiment_id, from) == StoreMsg("DeleteState", experiment_id, None, from)
LoadState(experiment_id, from) == StoreMsg("LoadState", experiment_id, None, from)
LoadAllStates == StoreMsg("LoadAllStates", 0, None, 0)

(***************************************************************************)
(* Repository::load_experiments, called by main when the process starts:   *)
(* LoadAllStates is sent, and with the answer one experiment is created    *)
(* per entry.                                                              *)
(***************************************************************************)
CreateAllFirst(exps, acts, catalog) ==
    IF DOMAIN catalog = {}
    THEN [experiments |-> exps, actors |-> acts]
    ELSE LET id == CHOOSE i \in DOMAIN catalog : \A j \in DOMAIN catalog : i <= j
         IN  CreateIn(exps, acts, id, catalog[id])

RECURSIVE CreateAll(_, _, _)
CreateAll(exps, acts, catalog) ==
    IF DOMAIN catalog = {}
    THEN [experiments |-> exps, actors |-> acts]
    ELSE LET id == CHOOSE i \in DOMAIN catalog : \A j \in DOMAIN catalog : i <= j
             r == CreateIn(exps, acts, id, catalog[id])
         IN  CreateAll(r.experiments, r.actors, MapRemove(catalog, id))

\* The call itself, which the repository's owner can make at any time:
\* self.state_store.send(LoadAllStates).
LoadExperimentsCall ==
    /\ alive
    /\ loading = NotLoading
    /\ loading' = [NotLoading EXCEPT !.st = "sent"]
    /\ storeMailbox' = Append(storeMailbox, LoadAllStates)
    /\ last' = Other
    /\ UNCHANGED <<now, storeRunning, requests, alive, experiments, nextId, actors, storage, persisting, disk, nCmds>>

\* main calls it once, on the repository it has just constructed.
LoadExperimentsSend ==
    /\ experiments = EmptyMap
    /\ FreeActors = Actors
    /\ LoadExperimentsCall

LoadExperimentsDone ==
    /\ alive
    /\ loading.st = "ready"
    /\ Cardinality(DOMAIN loading.catalog) <= Cardinality(FreeActors)
    /\ LET r == CreateAll(experiments, actors, loading.catalog)
       IN  /\ actors' = r.actors
           /\ experiments' = r.experiments
    /\ loading' = NotLoading
    /\ last' = Last("loaded", 0, Ping, Ok, FALSE)
    /\ UNCHANGED <<now, storeRunning, requests, alive, nextId, storeMailbox, storage, persisting, disk, nCmds>>

(***************************************************************************)
(* The commands callers send.                                              *)
(***************************************************************************)
Commands ==
    {Ping, GetStats, Draw,
     Reset(None, None, None), Reset(Some(0), Some(1), Some(1)),
     AddArm(Some(5), Some(2)),
     DisableArm(0), EnableArm(0), DeleteArm(0),
     Update(1, 0, 1),
     UpdateBatch(<<<<2, 1, 0>>, <<1, 0, 1>>>>)}

\* A lookup that resolves an id that is not registered to the first actor.
GetExperimentAddressAny(exps, experiment_id) ==
    [ok |-> TRUE,
     address |-> IF experiment_id \in DOMAIN exps THEN exps[experiment_id].address ELSE 1,
     err |-> ExperimentNotFound(experiment_id)]

\* Repository::get_experiment_address: the address registered for the id,
\* or ExperimentNotFound(id).
GetExperimentAddress(exps, experiment_id) ==
    [ok |-> experiment_id \in DOMAIN exps,
     address |-> IF experiment_id \in DOMAIN exps THEN exps[experiment_id].address ELSE 0,
     err |-> ExperimentNotFound(experiment_id)]

\* Repository::iter_experiments: every registered id with its descriptor.
IterExperiments(exps) == [id \in DOMAIN exps |-> exps[id].policy_type]

\* The listing of the experiments, read from the map alone.
ListExperiments ==
    /\ alive
    /\ loading = NotLoading
    /\ last' = Last("listed", 0, Ping, OkList(IterExperiments(experiments)), FALSE)
    /\ UNCHANGED <<now, storeRunning, requests, alive, experiments, loading, nextId, actors,
                   storeMailbox, storage, persisting, disk, nCmds>>

(***************************************************************************)
(* Repository::send_to_experiment, behind the command forwarders: the      *)
(* address is looked up and the message sent to it (Addr::send: the        *)
(* message joins the actor's mailbox); an id that is not registered        *)
(* returns the error of the lookup and nothing is sent.                    *)
(***************************************************************************)
SendToExperiment(experiment_id, msg) ==
    /\ alive
    /\ loading = NotLoading
    /\ LET found == GetExperimentAddress(experiments, experiment_id)
       IN  IF found.ok
           THEN /\ nCmds < MaxCmds
                /\ Len(actors[found.address].mailbox) < MaxMailbox
                /\ actors' = [actors EXCEPT ![found.address].mailbox = Append(@, msg)]
                /\ nCmds' = nCmds + 1
                /\ last' = Other
           ELSE /\ last' = Last("replied", 0, msg, found.err, FALSE)
                /\ UNCHANGED <<actors, nCmds>>
    /\ UNCHANGED <<now, storeRunning, requests, alive, experiments, loading, nextId, storeMailbox, storage, persisting,
                   disk>>

\* Who started an actor outside the repository holds its address and sends
\* to it directly; Delete is one of the messages.
SendDirect(address, msg) ==
    /\ alive
    /\ nCmds < MaxCmds
    /\ actors[address].state = "running"
    /\ ~actors[address].supervised
    /\ Len(actors[address].mailbox) < MaxMailbox
    /\ actors' = [actors EXCEPT ![address].mailbox = Append(@, msg)]
    /\ nCmds' = nCmds + 1
    /\ last' = Other
    /\ UNCHANGED <<now, storeRunning, requests, alive, experiments, loading, nextId, storeMailbox, storage, persisting,
                   disk>>

(***************************************************************************)
(* Repository::delete_experiment: Delete is sent to the actor (do_send)    *)
(* and the entry, with the only address of the actor, leaves the map; an   *)
(* id that is not registered returns the error of the lookup.              *)
(***************************************************************************)
DeleteExperiment(experiment_id) ==
    /\ alive
    /\ loading = NotLoading
    /\ LET found == GetExperimentAddress(experiments, experiment_id)
       IN  IF found.ok
           THEN /\ actors' = [actors EXCEPT ![found.address].mailbox = Append(@, Delete),
                                            ![found.address].addr = FALSE]
                /\ experiments' = MapRemove(experiments, experiment_id)
                /\ last' = Last("deleted", 0, Delete, OkId(experiment_id), FALSE)
           ELSE /\ last' = Last("replied", 0, Delete, found.err, FALSE)
                /\ UNCHANGED <<actors, experiments>>
    /\ UNCHANGED <<now, storeRunning, requests, alive, loading, nextId, storeMailbox, storage, persisting, disk, nCmds>>

\* A clear that sends Delete to the actors it forgets.
ClearDeleting ==
    /\ alive
    /\ loading = NotLoading
    /\ experiments # EmptyMap
    /\ actors' = [a \in Actors |->
                    IF \E id \in DOMAIN experiments : experiments[id].address = a
                    THEN [actors[a] EXCEPT !.addr = FALSE, !.mailbox = Append(@, Delete)]
                    ELSE actors[a]]
    /\ experiments' = EmptyMap
    /\ last' = Last("cleared", 0, Ping, Ok, FALSE)
    /\ UNCHANGED <<now, storeRunning, requests, alive, loading, nextId, storeMailbox, storage, persisting, disk, nCmds>>

\* A clear that removes one entry, the one with the smallest id.
ClearFirst ==
    /\ alive
    /\ loading = NotLoading
    /\ experiments # EmptyMap
    /\ LET id == CHOOSE i \in DOMAIN experiments : \A j \in DOMAIN experiments : i <= j
       IN  /\ actors' = [actors EXCEPT ![experiments[id].address].addr = FALSE]
           /\ experiments' = MapRemove(experiments, id)
    /\ last' = Last("cleared", 0, Ping, Ok, FALSE)
    /\ UNCHANGED <<now, storeRunning, requests, alive, loading, nextId, storeMailbox, storage, persisting, disk, nCmds>>

(***************************************************************************)
(* Repository::clear: the map is emptied; the addresses are dropped and    *)
(* nothing is sent to the actors.                                          *)
(***************************************************************************)
Clear ==
    /\ alive
    /\ loading = NotLoading
    /\ experiments # EmptyMap
    /\ actors' = [a \in Actors |->
                    IF \E id \in DOMAIN experiments : experiments[id].address = a
                    THEN [actors[a] EXCEPT !.addr = FALSE]
                    ELSE actors[a]]
    /\ experiments' = EmptyMap
    /\ last' = Last("cleared", 0, Ping, Ok, FALSE)
    /\ UNCHANGED <<now, storeRunning, requests, alive, loading, nextId, storeMailbox, storage, persisting, disk, nCmds>>

\* The context of an actor that stopped: restarted by its Supervisor while
\* an address to it exists (the actor value, with its policy and mailbox, is
\* kept and started again), gone otherwise.
AfterStop(act) ==
    IF act.supervised /\ act.addr
    THEN Started(act)
    ELSE [act EXCEPT !.state = "stopped", !.mailbox = <<>>, !.load = NoLoad]

(***************************************************************************)
(* The actor takes the next message of its mailbox and runs its handler;   *)
(* the result goes to the request that awaits it (Addr::send).             *)
(***************************************************************************)
Answered(reqs, a) ==
    [r \in Requests |->
        IF reqs[r].pc = "awaiting" /\ reqs[r].id = actors[a].id
        THEN IF reqs[r].pos = 1
             THEN [reqs[r] EXCEPT !.pc = "done", !.pos = 0]
             ELSE [reqs[r] EXCEPT !.pos = @ - 1]
        ELSE reqs[r]]

NextMessage(mailbox) == Head(mailbox)

Handle(a) ==
    /\ alive
    /\ actors[a].state = "running"
    /\ actors[a].mailbox # <<>>
    /\ LET act == actors[a]
           msg == NextMessage(act.mailbox)
       IN  \E o \in HandleMsg(act.policy, msg) :
              LET after == [act EXCEPT !.policy = o.policy, !.mailbox = Tail(@),
                                       !.deleted = @ \/ o.delete_state]
              IN  /\ actors' = [actors EXCEPT ![a] = IF o.stop THEN AfterStop(after) ELSE after]
                  /\ storeMailbox' = IF o.delete_state
                                     THEN Append(storeMailbox, DeleteState(act.id, a))
                                     ELSE storeMailbox
                  /\ last' = Last("handled", a, msg, o.result, act.policy # None)
    /\ requests' = Answered(requests, a)
    /\ UNCHANGED <<now, storeRunning, alive, experiments, loading, nextId, storage, persisting, disk, nCmds>>

(***************************************************************************)
(* Experiment::persist, run by the interval timer: a clone of the policy   *)
(* goes to the state store; nothing is sent while there is no policy.      *)
(***************************************************************************)
\* A persist that sends nothing.
PersistNothing(act, a) == <<>>

\* A persist that sends a new policy when the actor has none.
PersistDefault(act, a) ==
    <<SaveState(act.id, IF act.policy # None THEN CloneBox(Unwrap(act.policy)) ELSE NewPolicy, a)>>

Persist(act, a) ==
    IF act.policy # None
    THEN <<SaveState(act.id, CloneBox(Unwrap(act.policy)), a)>>
    ELSE <<>>

SaveTick(a) ==
    /\ alive
    /\ actors[a].state = "running"
    /\ Len(storeMailbox) < MaxStoreMailbox
    /\ storeMailbox' = storeMailbox \o Persist(actors[a], a)
    /\ last' = Last("saved", a, Ping, Ok, actors[a].policy # None)
    /\ UNCHANGED <<now, storeRunning, requests, alive, experiments, loading, nextId, actors, storage, persisting, disk,
                   nCmds>>

(***************************************************************************)
(* The future spawned by started: it sends LoadState, and when the answer  *)
(* is there the actor installs the policy, if the store had one.           *)
(***************************************************************************)
SendLoad(a) ==
    /\ alive
    /\ actors[a].state = "running"
    /\ actors[a].load.st = "tosend"
    /\ storeMailbox' = Append(storeMailbox, LoadState(actors[a].id, a))
    /\ actors' = [actors EXCEPT ![a].load.st = "sent"]
    /\ last' = Other
    /\ UNCHANGED <<now, storeRunning, requests, alive, experiments, loading, nextId, storage, persisting, disk, nCmds>>

\* A callback that installs a new policy when the store had none.
InstallLoadDefault(a) ==
    /\ alive
    /\ actors[a].state = "running"
    /\ actors[a].load.st = "ready"
    /\ LET maybe_policy == actors[a].load.val
       IN  actors' = [actors EXCEPT ![a].load = NoLoad,
                                    ![a].policy = IF maybe_policy # None
                                                  THEN maybe_policy ELSE Some(NewPolicy)]
    /\ last' = Other
    /\ UNCHANGED <<now, storeRunning, requests, alive, experiments, loading, nextId, storeMailbox, storage, persisting,
                   disk, nCmds>>

InstallLoad(a) ==
    /\ alive
    /\ actors[a].state = "running"
    /\ actors[a].load.st = "ready"
    /\ LET maybe_policy == actors[a].load.val
       IN  actors' = [actors EXCEPT ![a].load = NoLoad,
                                    ![a].policy = IF maybe_policy # None
                                                  THEN maybe_policy ELSE @]
    /\ last' = Other
    /\ UNCHANGED <<now, storeRunning, requests, alive, experiments, loading, nextId, storeMailbox, storage, persisting,
                   disk, nCmds>>

(***************************************************************************)
(* A supervised actor's context ends without Delete having been handled.   *)
(***************************************************************************)
Crash(a) ==
    /\ alive
    /\ actors[a].state = "running"
    /\ actors[a].supervised
    /\ last.kind # "restarted"
    /\ actors' = [actors EXCEPT ![a] = AfterStop(@)]
    /\ last' = IF actors[a].addr THEN Last("restarted", a, Ping, Ok, actors[a].policy # None)
               ELSE Other
    /\ UNCHANGED <<now, storeRunning, requests, alive, experiments, loading, nextId, storeMailbox, storage, persisting,
                   disk, nCmds>>

(***************************************************************************)
(* The StateStore's handlers.                                              *)
(***************************************************************************)
\* A Handler<SaveState> that keeps the entry the id has, if it has one.
HandleSaveStateFirst(store, msg) ==
    [storage |-> IF msg.experiment_id \in DOMAIN store THEN store
                 ELSE MapPut(store, msg.experiment_id, Unwrap(msg.policy)),
     reply |-> None]

\* Each handler yields the storage after it and its answer.
HandleSaveState(store, msg) ==
    [storage |-> MapPut(store, msg.experiment_id, Unwrap(msg.policy)), reply |-> None]

\* A Handler<DeleteState> that empties the storage.
HandleDeleteStateAll(store, msg) == [storage |-> EmptyMap, reply |-> None]

HandleDeleteState(store, msg) ==
    [storage |-> MapRemove(store, msg.experiment_id), reply |-> None]

\* A Handler<LoadState> that hands out the stored policy itself, which
\* leaves the storage with it.
HandleLoadStateTake(store, msg) ==
    [storage |-> MapRemove(store, msg.experiment_id),
     reply |-> MapGet(store, msg.experiment_id)]

\* A Handler<LoadState> that finds nothing.
HandleLoadStateNone(store, msg) == [storage |-> store, reply |-> None]

\* storage.get(id).cloned()
HandleLoadState(store, msg) ==
    [storage |-> store,
     reply |-> IF msg.experiment_id \in DOMAIN store
               THEN Some(CloneBox(store[msg.experiment_id]))
               ELSE None]

\* storage.clone()
HandleLoadAllStates(store, msg) ==
    [storage |-> store, reply |-> [id \in DOMAIN store |-> CloneBox(store[id])]]

StoreHandleMsg(store, msg) ==
    CASE msg.type = "SaveState" -> HandleSaveState(store, msg)
      [] msg.type = "DeleteState" -> HandleDeleteState(store, msg)
      [] msg.type = "LoadState" -> HandleLoadState(store, msg)
      [] msg.type = "LoadAllStates" -> HandleLoadAllStates(store, msg)

\* The store takes the next message of its mailbox; the answer to LoadState
\* goes to the future of the asking actor (dropped when that actor has
\* stopped or restarted since), the answer to LoadAllStates to the
\* repository.
StoreHandle ==
    /\ alive
    /\ storeRunning
    /\ ~persisting
    /\ storeMailbox # <<>>
    /\ LET msg == Head(storeMailbox)
           r == StoreHandleMsg(storage, msg)
       IN  /\ storeMailbox' = Tail(storeMailbox)
           /\ storage' = r.storage
           /\ actors' = IF /\ msg.type = "LoadState"
                           /\ actors[msg.from].state = "running"
                           /\ actors[msg.from].load.st = "sent"
                        THEN [actors EXCEPT ![msg.from].load =
                                 [st |-> "ready", val |-> r.reply]]
                        ELSE actors
           /\ loading' = IF msg.type = "LoadAllStates"
                         THEN [st |-> "ready", catalog |-> r.reply]
                         ELSE loading
    /\ last' = Other
    /\ UNCHANGED <<now, storeRunning, requests, alive, experiments, nextId, persisting, disk, nCmds>>

(***************************************************************************)
(* StateStore::persist, run by the interval timer.  An empty storage       *)
(* returns Ok at once.  Otherwise the catalog is serialized and written    *)
(* with std::fs::write, which truncates the file and then writes the       *)
(* document; the store handles nothing while it writes.  The tick fails    *)
(* before the file is touched (the file cannot be opened) or in the        *)
(* middle of the write.                                                    *)
(***************************************************************************)
\* A timer callback that stops the actor when persist fails.
TickEndsStopOnError(result) == result = Ok

\* The callback of the persist interval (StateStore::started): an Err of
\* persist is logged, and the actor goes on either way.
TickEnds(result) == TRUE

PersistEmpty ==
    /\ alive
    /\ storeRunning
    /\ ~persisting
    /\ storage = EmptyMap
    /\ storeRunning' = TickEnds(Ok)
    /\ last' = Last("tick", 0, Ping, Ok, FALSE)
    /\ UNCHANGED <<now, requests, alive, experiments, loading, nextId, actors, storeMailbox, storage,
                   persisting, disk, nCmds>>

PersistOpenFails ==
    /\ alive
    /\ storeRunning
    /\ ~persisting
    /\ storage # EmptyMap
    /\ storeRunning' = TickEnds(PersistenceError)
    /\ last' = Last("tick", 0, Ping, PersistenceError, FALSE)
    /\ UNCHANGED <<now, requests, alive, experiments, loading, nextId, actors, storeMailbox, storage,
                   persisting, disk, nCmds>>

PersistTruncate ==
    /\ alive
    /\ storeRunning
    /\ ~persisting
    /\ storage # EmptyMap
    /\ persisting' = TRUE
    /\ disk' = FilePartial
    /\ last' = Other
    /\ UNCHANGED <<now, storeRunning, requests, alive, experiments, loading, nextId, actors, storeMailbox, storage,
                   nCmds>>

PersistWrite ==
    /\ alive
    /\ persisting
    /\ persisting' = FALSE
    /\ disk' = FileDoc(Serialize(storage))
    /\ storeRunning' = TickEnds(Ok)
    /\ last' = Last("tick", 0, Ping, Ok, FALSE)
    /\ UNCHANGED <<now, requests, alive, experiments, loading, nextId, actors, storeMailbox, storage,
                   nCmds>>

PersistWriteFails ==
    /\ alive
    /\ persisting
    /\ persisting' = FALSE
    /\ storeRunning' = TickEnds(PersistenceError)
    /\ last' = Last("tick", 0, Ping, PersistenceError, FALSE)
    /\ UNCHANGED <<now, requests, alive, experiments, loading, nextId, actors, storeMailbox, storage,
                   disk, nCmds>>

\* The process dies; the file stays as it is.
ProcessCrash ==
    /\ alive
    /\ alive' = FALSE
    /\ last' = Other
    /\ UNCHANGED <<now, storeRunning, requests, experiments, loading, nextId, actors, storeMailbox, storage, persisting,
                   disk, nCmds>>

\* main: the process starts again on the file the previous run left.  A new
\* StateStore is constructed from the file, a new Repository is empty, and
\* nothing of the previous run's actors, mailboxes and requests is left.
Main ==
    /\ ~alive
    /\ alive' = TRUE
    /\ storage' = StateStoreNew(disk)
    /\ storeRunning' = TRUE
    /\ storeMailbox' = <<>>
    /\ persisting' = FALSE
    /\ experiments' = EmptyMap
    /\ loading' = NotLoading
    /\ actors' = [a \in Actors |-> NoActor]
    /\ requests' = [r \in Requests |-> NoRequest]
    /\ last' = Last("boot", 0, Ping, Ok, FALSE)
    /\ UNCHANGED <<now, nextId, disk, nCmds>>

(***************************************************************************)
(* The routes.  A route takes the guard of the repository's RwLock, calls  *)
(* the repository and awaits what it returns with the guard held, and      *)
(* drops the guard when the statement ends.                                *)
(***************************************************************************)
\* Routes that all take the read guard.
RouteModeRead(op) == "read"

\* repository.write() in the create, delete and clear routes,
\* repository.read() in the others.
RouteMode(op) == IF op \in {"create", "delete", "clear"} THEN "write" ELSE "read"

Holders == {r \in Requests : requests[r].pc # "idle"}

\* tokio::sync::RwLock: the write guard is given when nothing holds the
\* lock, the read guard when no write guard is held.
RwLockGives(mode) ==
    IF mode = "write"
    THEN Holders = {}
    ELSE \A q \in Holders : RouteMode(requests[q].op) = "read"

RouteAcquire(r, op, id) ==
    /\ alive
    /\ loading = NotLoading
    /\ requests[r].pc = "idle"
    /\ op = "create" => nextId + Cardinality({q \in Holders : requests[q].op = "create"}) <= MaxIds
    /\ op = "draw" => nCmds + Cardinality({q \in Holders : requests[q].op = "draw"}) < MaxCmds
    /\ op \in {"create", "clear", "list"} => id = 0
    /\ op \in {"delete", "draw"} => id \in Ids
    /\ RwLockGives(RouteMode(op))
    /\ requests' = [requests EXCEPT ![r] = [op |-> op, id |-> id, pc |-> "holding", pos |-> 0]]
    /\ last' = Other
    /\ UNCHANGED <<now, alive, experiments, loading, nextId, actors, storeMailbox, storage,
                   persisting, disk, nCmds, storeRunning>>

\* The call of the repository with the guard held.
RouteRun(r) ==
    /\ alive
    /\ requests[r].pc = "holding"
    /\ LET req == requests[r]
           found == GetExperimentAddress(experiments, req.id)
           done == [requests EXCEPT ![r].pc = "done"]
       IN  CASE req.op = "create" ->
                  LET c == CreateIn(experiments, actors, nextId, NewPolicy)
                  IN  /\ experiments' = c.experiments
                      /\ actors' = c.actors
                      /\ nextId' = nextId + 1
                      /\ requests' = done
                      /\ UNCHANGED nCmds
             [] req.op = "delete" ->
                  /\ IF found.ok
                     THEN /\ actors' = [actors EXCEPT
                                          ![found.address].mailbox = Append(@, Delete),
                                          ![found.address].addr = FALSE]
                          /\ experiments' = MapRemove(experiments, req.id)
                     ELSE UNCHANGED <<actors, experiments>>
                  /\ requests' = done
                  /\ UNCHANGED <<nextId, nCmds>>
             [] req.op = "clear" ->
                  /\ actors' = [a \in Actors |->
                                  IF \E id \in DOMAIN experiments : experiments[id].address = a
                                  THEN [actors[a] EXCEPT !.addr = FALSE]
                                  ELSE actors[a]]
                  /\ experiments' = EmptyMap
                  /\ requests' = done
                  /\ UNCHANGED <<nextId, nCmds>>
             [] req.op = "list" ->
                  /\ requests' = done
                  /\ UNCHANGED <<experiments, actors, nextId, nCmds>>
             [] req.op = "draw" ->
                  /\ IF found.ok
                     THEN /\ Len(actors[found.address].mailbox) < MaxMailbox
                          /\ actors' = [actors EXCEPT ![found.address].mailbox = Append(@, Draw)]
                          /\ nCmds' = nCmds + 1
                          /\ requests' = [requests EXCEPT
                                            ![r].pc = "awaiting",
                                            ![r].pos = Len(actors[found.address].mailbox) + 1]
                     ELSE /\ requests' = done
                          /\ UNCHANGED <<actors, nCmds>>
                  /\ UNCHANGED <<experiments, nextId>>
    /\ last' = Other
    /\ UNCHANGED <<now, alive, loading, storeMailbox, storage, persisting, disk, storeRunning>>

\* The statement ends: the guard is dropped and the response goes out.
RouteRelease(r) ==
    /\ alive
    /\ requests[r].pc = "done"
    /\ requests' = [requests EXCEPT ![r] = NoRequest]
    /\ last' = Other
    /\ UNCHANGED <<now, alive, experiments, loading, nextId, actors, storeMailbox, storage,
                   persisting, disk, nCmds, storeRunning>>

(***************************************************************************)
(* The methods of a policy called one after the other, as the unit tests   *)
(* of the policies call them: the handler of the message runs on the       *)
(* policy of an actor whose mailbox is empty.  The clock advances between  *)
(* the calls.                                                              *)
(***************************************************************************)
PolicyCommand(a, msg) ==
    /\ alive
    /\ actors[a].state = "running"
    /\ actors[a].policy # None
    /\ actors[a].mailbox = <<>>
    /\ LET p == Unwrap(actors[a].policy)
       IN  /\ msg.type = "AddArm" => Cardinality(DOMAIN p.arms) < MaxArms
           /\ msg.type = "Draw" => p.rng < MaxDraws
           /\ msg.type = "Update" =>
                 (Unwrap(msg.arm_id) \in DOMAIN p.arms =>
                     p.arms[Unwrap(msg.arm_id)].count < MaxCount)
           /\ msg.type = "UpdateBatch" =>
                 \A x \in DOMAIN p.arms : p.arms[x].count + Len(msg.updates) <= MaxCount
    /\ \E o \in HandleMsg(actors[a].policy, msg) :
          /\ actors' = [actors EXCEPT ![a].policy = o.policy]
          /\ last' = Last("handled", a, msg, o.result, TRUE)
    /\ UNCHANGED <<now, storeRunning, requests, alive, experiments, loading, nextId,
                   storeMailbox, storage, persisting, disk, nCmds>>

Tick ==
    /\ alive
    /\ now < MaxTime
    /\ now' = now + 1
    /\ last' = Other
    /\ UNCHANGED <<storeRunning, requests, alive, experiments, loading, nextId, actors,
                   storeMailbox, storage, persisting, disk, nCmds>>

\* There is room for one more experiment actor to be started.
Room == Cardinality({a \in Actors : actors[a].state # "none"}) < MaxSpawned

(***************************************************************************)
(* The experiments and their commands: the repository, the actors and the  *)
(* state store's mailbox, with the file left as it was found.              *)
(***************************************************************************)
Next ==
    \/ Room /\ CreateExperiment(NewPolicy)
    \/ \E id \in Ids : Room /\ StartExperiment(id)
    \/ LoadExperimentsSend
    \/ LoadExperimentsDone
    \/ \E id \in DOMAIN experiments, msg \in Commands : SendToExperiment(id, msg)
    \/ \E a \in Actors, msg \in Commands \cup {Delete} : SendDirect(a, msg)
    \/ \E id \in DOMAIN experiments : DeleteExperiment(id)
    \/ Clear
    \/ \E a \in Actors : Handle(a)
    \/ \E a \in Actors : SaveTick(a)
    \/ \E a \in Actors : SendLoad(a)
    \/ \E a \in Actors : InstallLoad(a)
    \/ \E a \in Actors : Crash(a)
    \/ StoreHandle

Spec == Init /\ [][Next]_vars

(***************************************************************************)
(* The state store and its file: experiments that are updated, saved and   *)
(* deleted while the store persists its catalog.                           *)
(***************************************************************************)
StoreCommands == {AddArm(Some(5), Some(2)), Update(1, 0, 1)}

NextStore ==
    \/ Room /\ CreateExperiment(NewPolicy)
    \/ LoadExperimentsSend
    \/ LoadExperimentsDone
    \/ \E id \in DOMAIN experiments, msg \in StoreCommands : SendToExperiment(id, msg)
    \/ \E id \in DOMAIN experiments : DeleteExperiment(id)
    \/ \E a \in Actors : Handle(a)
    \/ \E a \in Actors : SaveTick(a)
    \/ StoreHandle
    \/ PersistEmpty
    \/ PersistOpenFails
    \/ PersistTruncate
    \/ PersistWrite
    \/ PersistWriteFails
    \/ ProcessCrash
    \/ Main

SpecStore == Init /\ [][NextStore]_vars


(***************************************************************************)
(* The process that keeps running with persist ticks that do not fail:     *)
(* every actor's futures and save ticks, the store's mailbox and its       *)
(* persist ticks get their turn.  The timers fire at every period, the     *)
(* store handles its mailbox between two ticks.                            *)
(***************************************************************************)
DirectCommands == {GetStats, Update(1, 0, 1)}

NextLive ==
    \/ Room /\ CreateExperiment(NewPolicy)
    \/ \E id \in Ids : Room /\ StartExperiment(id)
    \/ LoadExperimentsSend
    \/ LoadExperimentsDone
    \/ \E id \in DOMAIN experiments, msg \in StoreCommands : SendToExperiment(id, msg)
    \/ \E a \in Actors, msg \in DirectCommands : SendDirect(a, msg)
    \/ \E id \in DOMAIN experiments : DeleteExperiment(id)
    \/ \E a \in Actors : Handle(a)
    \/ \E a \in Actors : SaveTick(a)
    \/ \E a \in Actors : SendLoad(a)
    \/ \E a \in Actors : InstallLoad(a)
    \/ StoreHandle
    \/ PersistEmpty
    \/ PersistTruncate
    \/ PersistWrite

Fairness ==
    /\ \A a \in Actors : WF_vars(SendLoad(a))
    /\ \A a \in Actors : WF_vars(InstallLoad(a))
    /\ \A a \in Actors : SF_vars(SaveTick(a))
    /\ SF_vars(StoreHandle)
    /\ WF_vars(PersistTruncate)
    /\ WF_vars(PersistWrite)

SpecLive == Init /\ [][NextLive]_vars /\ Fairness

(***************************************************************************)
(* The repository: experiments that are loaded, created, listed, deleted   *)
(* and cleared, and commands for ids that are registered and for ids that  *)
(* are not.                                                                *)
(***************************************************************************)
NextRepo ==
    \/ CreateExperiment(NewPolicy)
    \/ LoadExperimentsSend
    \/ LoadExperimentsDone
    \/ ListExperiments
    \/ \E id \in DOMAIN experiments, msg \in {Ping, AddArm(Some(5), Some(2)), GetStats} :
          SendToExperiment(id, msg)
    \/ \E id \in Ids \ DOMAIN experiments, msg \in Commands : SendToExperiment(id, msg)
    \/ \E id \in Ids : DeleteExperiment(id)
    \/ Clear
    \/ \E a \in Actors : Handle(a)
    \/ StoreHandle

SpecRepo == Init /\ [][NextRepo]_vars

(***************************************************************************)
(* The requests of the HTTP workers, which run in parallel and share the   *)
(* repository behind its RwLock.                                           *)
(***************************************************************************)
NextLock ==
    \/ \E r \in Requests, op \in {"create", "delete", "clear", "list", "draw"},
          id \in Ids \cup {0} : RouteAcquire(r, op, id)
    \/ \E r \in Requests : RouteRun(r)
    \/ \E r \in Requests : RouteRelease(r)
    \/ \E a \in Actors : Handle(a)
    \/ StoreHandle

SpecLock == Init /\ [][NextLock]_vars

(***************************************************************************)
(* One policy of each type and the commands it is given: arms added with   *)
(* a prior of no pull and with the prior (5, 2) of the tests, resets,      *)
(* arms disabled, enabled and deleted, rewards of 1, 0 and -2 with the     *)
(* time of the update before, at or after the clock, and draws.            *)
(***************************************************************************)
Policies ==
    {NewPolicy, UcbNew(RatOfInt(1), Some(Seed)),
     ThomsonSamplingNew(None, Some(Seed)), ThomsonSamplingNew(Some(1), Some(Seed))}

PolicyCommands ==
    {Draw, GetStats,
     AddArm(Some(0), Some(0)), AddArm(Some(5), Some(2)),
     Reset(None, None, None), Reset(Some(0), Some(3), Some(1)),
     DisableArm(0), EnableArm(0), DeleteArm(0), DisableArm(1),
     Update(0, 0, 1), Update(1, 0, -2), Update(2, 1, 0)}

NextPolicy ==
    \/ \E p \in Policies : Room /\ CreateExperiment(p)
    \/ \E a \in Actors, msg \in PolicyCommands : PolicyCommand(a, msg)
    \/ Tick

SpecPolicy == Init /\ [][NextPolicy]_vars

(***************************************************************************)
(* The same policies given rewards one by one and in batches: batches      *)
(* submitted out of order, with equal timestamps, for one arm and for two, *)
(* and for an arm the policy may not hold, between arms added with and     *)
(* without a prior, resets with and without the statistics, and deletions. *)
(***************************************************************************)
BatchCommands ==
    {GetStats,
     AddArm(Some(0), Some(0)), AddArm(Some(1), Some(1)),
     Reset(None, None, None), Reset(Some(0), Some(1), Some(1)),
     Reset(Some(0), None, Some(1)),
     DeleteArm(0),
     Update(1, 0, 1),
     UpdateBatch(<<<<1, 0, 1>>, <<0, 0, 0>>>>),
     UpdateBatch(<<<<1, 1, 1>>, <<0, 0, 0>>>>),
     UpdateBatch(<<<<1, 0, 0>>, <<1, 1, 1>>>>)}

NextBatch ==
    \/ \E p \in Policies : Room /\ CreateExperiment(p)
    \/ \E a \in Actors, msg \in BatchCommands : PolicyCommand(a, msg)
    \/ Tick

SpecBatch == Init /\ [][NextBatch]_vars

(***************************************************************************)
(* Epsilon-greedy policies that are drawn from: one with epsilon 0, whose  *)
(* draws all take the exploit branch, and the one of the tests; arms with  *)
(* equal and with different rewards, disabled, enabled and deleted.        *)
(***************************************************************************)
NextDraw ==
    \/ \E p \in {EpsilonGreedyNew(RatOfInt(0), Some(Seed)), NewPolicy} :
            Room /\ CreateExperiment(p)
    \/ \E a \in Actors,
           msg \in {Draw, AddArm(Some(0), Some(0)), AddArm(Some(5), Some(2)),
                    DisableArm(0), DisableArm(1), EnableArm(0), DeleteArm(0),
                    Update(0, 1, 1)} :
            PolicyCommand(a, msg)

SpecDraw == Init /\ [][NextDraw]_vars

(***************************************************************************)
(* The repository as its owner can call it: create_experiment,             *)
(* load_experiments, delete_experiment and clear in any order, with        *)
(* commands for the registered experiments, while the actors handle their  *)
(* mailboxes and their save ticks fire.                                    *)
(***************************************************************************)
NextApi ==
    \/ CreateExperiment(NewPolicy)
    \/ LoadExperimentsCall
    \/ LoadExperimentsDone
    \/ \E id \in DOMAIN experiments : SendToExperiment(id, AddArm(Some(5), Some(2)))
    \/ \E id \in DOMAIN experiments : DeleteExperiment(id)
    \/ Clear
    \/ \E a \in Actors : Handle(a)
    \/ \E a \in Actors : SaveTick(a)
    \/ StoreHandle

SpecApi == Init /\ [][NextApi]_vars

(***************************************************************************)
(* The commands applied to a policy directly, as the reference the actor   *)
(* is held against: what the policy methods make of the policy p and the   *)
(* message.                                                                *)
(***************************************************************************)
Applied(p, msg) ==
    CASE msg.type = "Reset" -> {PolicyReset(p, msg.arm_id, msg.reward, msg.count)}
      [] msg.type = "AddArm" ->
            {PolicyAddArm(p, UnwrapOrDefault(msg.reward), UnwrapOrDefault(msg.count))}
      [] msg.type = "DisableArm" -> {PolicyDisableArm(p, Unwrap(msg.arm_id))}
      [] msg.type = "EnableArm" -> {PolicyEnableArm(p, Unwrap(msg.arm_id))}
      [] msg.type = "DeleteArm" -> {PolicyDeleteArm(p, Unwrap(msg.arm_id))}
      [] msg.type = "Update" ->
            {PolicyUpdate(p, msg.timestamp, Unwrap(msg.arm_id), Unwrap(msg.reward))}
      [] msg.type = "UpdateBatch" ->
            {PolicyUpdateBatch(p, us) : us \in SortedByTimestamp(msg.updates)}
      [] msg.type = "Draw" -> PolicyDraw(p)
      [] msg.type = "GetStats" -> {[policy |-> p, result |-> OkStats(PolicyStats(p))]}
      [] OTHER -> {[policy |-> p, result |-> Ok]}

HandledBy(a) == last.kind = "handled" /\ last.actor = a

(***************************************************************************)
(* C1. One Experiment actor applies its commands one at a time and in the  *)
(* order it received them.  A step in which the actor a handles a message  *)
(* takes the oldest message of its mailbox; when the actor holds a policy, *)
(* the policy after the step and the result are what the policy method     *)
(* gives on the policy before it, so that a GetStats reports exactly the   *)
(* commands handled before it and none handled after it; and between two   *)
(* handlers of a nothing changes the policy a holds, and the mailbox only  *)
(* grows at its end.                                                       *)
(***************************************************************************)
C1_Step(a) ==
    IF HandledBy(a)'
    THEN /\ actors[a].state = "running"
         /\ actors[a].mailbox # <<>>
         /\ last'.msg = Head(actors[a].mailbox)
         /\ actors'[a].mailbox \in {Tail(actors[a].mailbox), <<>>}
         /\ actors[a].policy # None =>
               /\ last'.had_policy
               /\ \E r \in Applied(Unwrap(actors[a].policy), last'.msg) :
                     /\ actors'[a].policy = Some(r.policy)
                     /\ last'.result = r.result
               /\ last'.msg.type = "GetStats" =>
                     /\ actors'[a].policy = actors[a].policy
                     /\ last'.result = OkStats(PolicyStats(Unwrap(actors[a].policy)))
    ELSE /\ actors[a].policy # None => actors'[a].policy = actors[a].policy
         /\ \/ actors'[a].mailbox = actors[a].mailbox
            \/ \E m \in Commands \cup {Delete} :
                  actors'[a].mailbox = Append(actors[a].mailbox, m)
            \/ actors'[a].state = "stopped"

C1_CommandsInOrder == [][\A a \in Actors : C1_Step(a)]_vars

\* GetStats handled after an Update that made the arm's third pull.
C1_Witness ==
    /\ last.kind = "handled"
    /\ last.msg.type = "GetStats"
    /\ last.result.kind = "Ok"
    /\ 0 \in DOMAIN last.result.stats
    /\ last.result.stats[0].pulls = 3

(***************************************************************************)
(* C2, as stated.  While the actor holds no policy, every command other    *)
(* than Ping, Delete among them, returns NoPolicy, and Ping succeeds.      *)
(***************************************************************************)
C2_AllButPingNoPolicy ==
    (last.kind = "handled" /\ ~last.had_policy) =>
        IF last.msg.type = "Ping" THEN last.result = Ok ELSE last.result = NoPolicy

(***************************************************************************)
(* C2, amended.  While the actor holds no policy, Reset, AddArm,           *)
(* DisableArm, EnableArm, DeleteArm, Draw, Update, UpdateBatch and         *)
(* GetStats return NoPolicy and leave the actor without policy; Ping and   *)
(* Delete succeed.                                                         *)
(***************************************************************************)
C2_NoPolicy ==
    (last.kind = "handled" /\ ~last.had_policy) =>
        /\ last.msg.type \in PolicyCommandTypes =>
              last.result = NoPolicy /\ actors[last.actor].policy = None
        /\ last.msg.type \in {"Ping", "Delete"} => last.result = Ok

\* A policy command answered NoPolicy by an actor without policy.
C2_Witness ==
    /\ last.kind = "handled"
    /\ ~last.had_policy
    /\ last.msg.type = "Update"
    /\ last.result = NoPolicy

(***************************************************************************)
(* C3. An actor started without policy, for whose id the state store holds *)
(* a snapshot (and has no save or delete of that id left to handle),       *)
(* eventually holds that snapshot as its policy; and a                     *)
(* GetStats such a reloaded actor handles while its policy is the stored   *)
(* snapshot returns the stats of the snapshot: for the snapshot of an arm  *)
(* added with reward 5 and count 2, pulls 2, mean_reward 5 and is_active.  *)
(***************************************************************************)
SavedStats == [a \in {0} |-> [pulls |-> 2, mean_reward |-> <<5, 1>>, is_active |-> TRUE]]

Reloading(a, id) ==
    /\ actors[a].state = "running"
    /\ actors[a].id = id
    /\ actors[a].policy = None
    /\ actors[a].load.st # "idle"
    /\ id \in DOMAIN storage
    /\ \A i \in 1..Len(storeMailbox) :
          storeMailbox[i].experiment_id = id => storeMailbox[i].type = "LoadState"

Reloaded(a, id) ==
    /\ actors[a].state = "running"
    /\ actors[a].id = id
    /\ id \in DOMAIN storage
    /\ actors[a].policy = Some(storage[id])

C3_StatsOfSnapshot ==
    \A a \in Actors :
        (/\ HandledBy(a)
         /\ last.msg.type = "GetStats"
         /\ ~actors[a].supervised
         /\ Reloaded(a, actors[a].id)) =>
            /\ last.result = OkStats(PolicyStats(storage[actors[a].id]))
            /\ storage[actors[a].id].arms = SavedPolicy.arms => last.result.stats = SavedStats

C3_Reload ==
    /\ \A a \in Actors, id \in Ids : Reloading(a, id) ~> Reloaded(a, id)
    /\ []C3_StatsOfSnapshot

\* The reloaded actor answers GetStats with the stats of the saved arm.
C3_Witness ==
    \E a \in Actors :
        /\ HandledBy(a)
        /\ last.msg.type = "GetStats"
        /\ ~actors[a].supervised
        /\ last.result = OkStats(SavedStats)

(***************************************************************************)
(* C4, as stated.  A supervised actor that stopped without having handled  *)
(* Delete is restarted with an empty policy and asks the state store for   *)
(* its snapshot.                                                           *)
(***************************************************************************)
C4_RestartReloads ==
    last.kind = "restarted" =>
        /\ actors[last.actor].state = "running"
        /\ actors[last.actor].policy = None
        /\ actors[last.actor].load.st = "tosend"

(***************************************************************************)
(* C5. A SaveState joins the state store's mailbox only in a step that is  *)
(* no command handler, and it carries the id of the sending actor and the  *)
(* policy that actor holds in that step, which the step leaves as it is:   *)
(* the policy after every command handled before the tick and before any   *)
(* handled after it.  The messages waiting in the mailbox are not changed. *)
(***************************************************************************)
C5_Step ==
    /\ \/ storeMailbox' = storeMailbox
       \/ storeMailbox # <<>> /\ storeMailbox' = Tail(storeMailbox)
       \/ /\ Len(storeMailbox') = Len(storeMailbox) + 1
          /\ SubSeq(storeMailbox', 1, Len(storeMailbox)) = storeMailbox
    /\ (/\ Len(storeMailbox') = Len(storeMailbox) + 1
        /\ storeMailbox'[Len(storeMailbox')].type = "SaveState") =>
            LET m == storeMailbox'[Len(storeMailbox')]
            IN  /\ actors[m.from].state = "running"
                /\ m.experiment_id = actors[m.from].id
                /\ actors[m.from].policy # None
                /\ m.policy = actors[m.from].policy
                /\ actors' = actors
                /\ last'.kind # "handled"

C5_SnapshotAtTick == [][C5_Step]_vars

\* A snapshot of the policy with the arm's third pull waits in the mailbox
\* while the actor has handled a further command.
C5_Witness ==
    \E i \in 1..Len(storeMailbox) :
        LET m == storeMailbox[i]
        IN  /\ m.type = "SaveState"
            /\ 0 \in DOMAIN Unwrap(m.policy).arms
            /\ Unwrap(m.policy).arms[0].count = 3
            /\ actors[m.from].policy # m.policy

(***************************************************************************)
(* C6. The entry the state store holds for an id changes only in a step in *)
(* which the store handles a SaveState or a DeleteState for that id: no    *)
(* command an actor handles, and no LoadState or LoadAllStates, changes    *)
(* it, whatever is done to the policy that was saved or handed out.        *)
(***************************************************************************)
C6_Step ==
    \A id \in Ids :
        MapGet(storage', id) # MapGet(storage, id) =>
            /\ storeMailbox # <<>>
            /\ Head(storeMailbox).type \in {"SaveState", "DeleteState"}
            /\ Head(storeMailbox).experiment_id = id
            /\ storeMailbox' = Tail(storeMailbox)
            /\ last'.kind # "handled"

C6_SnapshotIndependent == [][C6_Step]_vars

\* An actor whose policy came from LoadState has handled an update, and the
\* stored entry still has the two pulls it was saved with.
C6_Witness ==
    \E a \in Actors :
        /\ HandledBy(a)
        /\ ~actors[a].supervised
        /\ last.msg.type = "Update"
        /\ last.result = Ok
        /\ actors[a].id \in DOMAIN storage
        /\ storage[actors[a].id].arms[0].count = 2
        /\ Unwrap(actors[a].policy).arms[0].count = 3

(***************************************************************************)
(* C7. The step in which an actor handles Delete sends DeleteState for its *)
(* id and stops the actor.  Every SaveState of a deleted actor that is     *)
(* still in the state store's mailbox is ahead of its DeleteState, and     *)
(* once the DeleteState has been handled the store holds no entry for the  *)
(* id.                                                                     *)
(***************************************************************************)
FromActor(a, type) ==
    {i \in 1..Len(storeMailbox) : storeMailbox[i].from = a /\ storeMailbox[i].type = type}

MaxPulls == MaxCmds + 2

Confirmed(a, id, c) ==
    /\ HandledBy(a)
    /\ last.msg.type = "Update"
    /\ last.result = Ok
    /\ actors[a].id = id
    /\ Unwrap(actors[a].policy).arms[Unwrap(last.msg.arm_id)].count = c

OnDisk(id, c) ==
    /\ disk.kind = "Doc"
    /\ id \in DOMAIN disk.catalog
    /\ 0 \in DOMAIN disk.catalog[id].arms
    /\ disk.catalog[id].arms[0].count >= c

Gone(a) ==
    \/ actors[a].deleted
    \/ actors[a].supervised /\ actors[a].id \notin DOMAIN experiments

C8_Durable ==
    \A a \in Actors, id \in Ids, c \in 1..MaxPulls :
        Confirmed(a, id, c) ~> (OnDisk(id, c) \/ Gone(a))

\* The document on disk holds the arm saved with two pulls and updated once.
C8_Witness ==
    \E a \in Actors :
        /\ actors[a].state = "running"
        /\ ~Gone(a)
        /\ OnDisk(actors[a].id, 3)

(***************************************************************************)
(* C9, as stated.  A persist tick that does not fail leaves a file whose   *)
(* document is the in-memory mapping: it holds the ids the storage holds,  *)
(* each with the policy stored for it, and an id the storage no longer     *)
(* holds is not in the file.                                               *)
(***************************************************************************)
C9_DiskIsStorage ==
    (last.kind = "tick" /\ last.result = Ok) =>
        /\ disk.kind # "Partial"
        /\ disk.catalog = Serialize(storage)

(***************************************************************************)
(* C10, as stated.  The file holds a complete catalog at every point,      *)
(* never a part of a document.                                             *)
(***************************************************************************)
C10_NeverPartial == disk.kind # "Partial"

(***************************************************************************)
(* C11. A persist tick that fails leaves the state store running with the  *)
(* mapping and the mailbox it had: after the step the store is ready to    *)
(* handle the next message of its mailbox, and the next tick attempts the  *)
(* write again.                                                            *)
(***************************************************************************)
FailedTick == last.kind = "tick" /\ last.result = PersistenceError

C11_Step ==
    FailedTick' =>
        /\ storage' = storage
        /\ storeMailbox' = storeMailbox
        /\ storage' # EmptyMap
        /\ alive'
        /\ storeRunning'
        /\ ~persisting'

C11_FailureNotFatal ==
    /\ [][C11_Step]_vars
    /\ [](FailedTick => /\ ENABLED PersistTruncate
                        /\ storeMailbox # <<>> => ENABLED StoreHandle)

\* After a failed tick a message waits for the store, which can handle it.
C11_Witness ==
    /\ FailedTick
    /\ storeMailbox # <<>>
    /\ ENABLED StoreHandle
    /\ ENABLED PersistTruncate


(***************************************************************************)
(* C12. Constructing the state store never fails.  A stopped process can   *)
(* always start again, whatever the file holds; the store it constructs    *)
(* holds no entry when the file is missing or does not parse (it holds a   *)
(* part of a document, or a document with a policy whose rng is not a      *)
(* number or null), and holds exactly the entries of the document          *)
(* otherwise: the same ids, each with the parameters, seed and arms the    *)
(* document gives for it.                                                  *)
(***************************************************************************)
Booted == last.kind = "boot"

Parses(file) ==
    /\ file.kind = "Doc"
    /\ \A id \in DOMAIN file.catalog : file.catalog[id].rng.json = "option"

C12_StoreFromFile ==
    /\ ~alive => ENABLED Main
    /\ Booted =>
        /\ alive
        /\ storeRunning
        /\ ~Parses(disk) => storage = EmptyMap
        /\ Parses(disk) =>
            /\ DOMAIN storage = DOMAIN disk.catalog
            /\ \A id \in DOMAIN storage :
                  /\ storage[id].seed = disk.catalog[id].rng.seed
                  /\ \A f \in DOMAIN disk.catalog[id] \ {"rng"} :
                        storage[id][f] = disk.catalog[id][f]

\* The process started on a document that parses and holds an experiment.
C12_Witness ==
    /\ Booted
    /\ Parses(disk)
    /\ \E id \in DOMAIN storage : storage[id].arms = SavedPolicy.arms

(***************************************************************************)
(* C13. When load_experiments returns Ok, every id of the state store's    *)
(* catalog is registered in the repository with a running actor of that id *)
(* whose policy is the stored snapshot, and GetStats handled by that actor *)
(* gives the statistics of the stored policy.                              *)
(***************************************************************************)
Loaded == last.kind = "loaded"

Created == last.kind = "created"
Listed == last.kind = "listed"
SendStep == nCmds' = nCmds + 1

C14_Returned ==
    Created =>
        LET id == last.result.experiment_id
            found == GetExperimentAddress(experiments, id)
        IN  /\ id \in DOMAIN IterExperiments(experiments)
            /\ IterExperiments(experiments)[id] = PolicyTypeOf(NewPolicy)
            /\ found.ok
            /\ actors[found.address].state = "running"
            /\ actors[found.address].id = id
            /\ actors[found.address].policy = Some(NewPolicy)
            /\ \A o \in HandleMsg(actors[found.address].policy, Ping) : o.result = Ok

C14_Step ==
    /\ Listed' =>
        /\ actors' = actors
        /\ storeMailbox' = storeMailbox
        /\ experiments' = experiments
        /\ last'.result = OkList(IterExperiments(experiments))
    /\ SendStep =>
        \E id \in DOMAIN experiments :
            LET a == experiments[id].address
            IN  /\ actors[a].id = id
                /\ Len(actors'[a].mailbox) = Len(actors[a].mailbox) + 1
                /\ \A b \in Actors \ {a} : actors'[b] = actors[b]

C14_PingOk ==
    \A a \in Actors :
        (HandledBy(a) /\ last.msg = Ping /\ actors[a].supervised) => last.result = Ok

C14_CreateRegisters ==
    /\ [](C14_Returned /\ C14_PingOk)
    /\ [][C14_Step]_vars

C14_Witness ==
    /\ Cardinality(DOMAIN experiments) = 2
    /\ \E a \in Actors :
        /\ HandledBy(a)
        /\ last.msg = Ping
        /\ last.result = Ok
        /\ actors[a].id = nextId - 1
        /\ GetExperimentAddress(experiments, nextId - 1).address = a

(***************************************************************************)
(* C15. delete_experiment(id) for a registered id returns Ok and removes   *)
(* the id from the map, so that it is no longer listed.  From then on the  *)
(* id stays out of the map, its lookup fails, no message joins the mailbox *)
(* of the actor that had the id, and a call for the id, a second delete    *)
(* included, returns ExperimentNotFound(id) and changes nothing.           *)
(***************************************************************************)
Deleted == last.kind = "deleted"
Replied == last.kind = "replied"
WasRegistered(id) ==
    \E a \in Actors : actors[a].supervised /\ actors[a].id = id
NothingElseChanged ==
    UNCHANGED <<now, alive, experiments, loading, nextId, actors, storeMailbox, storage,
                persisting, disk, nCmds, storeRunning, requests>>

C15_Step ==
    /\ Deleted' =>
        LET id == last'.result.experiment_id
        IN  /\ id \in DOMAIN experiments
            /\ last'.result = OkId(id)
            /\ experiments' = MapRemove(experiments, id)
            /\ id \notin DOMAIN IterExperiments(experiments')
    /\ \A id \in Ids :
        (WasRegistered(id) /\ id \notin DOMAIN experiments) =>
            /\ id \notin DOMAIN experiments'
            /\ ~GetExperimentAddress(experiments, id).ok
            /\ \A a \in Actors :
                  actors[a].id = id => Len(actors'[a].mailbox) <= Len(actors[a].mailbox)
            /\ (Replied' /\ last'.result.experiment_id = id) =>
                  /\ last'.result = ExperimentNotFound(id)
                  /\ NothingElseChanged

C15_DeleteRemoves == [][C15_Step]_vars

C15_Witness ==
    /\ Replied
    /\ last.msg = Delete
    /\ \E a \in Actors :
        /\ actors[a].deleted
        /\ actors[a].state = "stopped"
        /\ last.result = ExperimentNotFound(actors[a].id)

(***************************************************************************)
(* C16. A command forwarder called with an id that is not registered       *)
(* returns ExperimentNotFound(id) without sending anything: for each of    *)
(* ping, reset, add_arm, disable_arm, enable_arm, delete_arm, draw,        *)
(* update, batch_update and get_stats the call returns, and the step it    *)
(* takes leaves the map, every actor with its policy and mailbox, the      *)
(* state store and the file as they were.                                  *)
(***************************************************************************)
Unknown == Ids \ DOMAIN experiments

C16_Returns ==
    (alive /\ loading = NotLoading) =>
        \A id \in Unknown, msg \in Commands : ENABLED SendToExperiment(id, msg)

C16_Step ==
    /\ \A id \in Unknown, msg \in Commands :
        SendToExperiment(id, msg) =>
            /\ Replied'
            /\ last'.msg = msg
            /\ last'.result = ExperimentNotFound(id)
            /\ NothingElseChanged
    /\ Replied' =>
        /\ last'.result.experiment_id \in Unknown
        /\ NothingElseChanged

C16_UnknownId ==
    /\ []C16_Returns
    /\ [][C16_Step]_vars

C16_Witness ==
    /\ Replied
    /\ last.msg.type = "UpdateBatch"
    /\ ~WasRegistered(last.result.experiment_id)
    /\ \E id \in DOMAIN experiments : actors[experiments[id].address].mailbox # <<>>

(***************************************************************************)
(* C17. clear() removes every entry of the map: in the state it returns in *)
(* the listing is empty and no actor was sent anything; and a command for  *)
(* an id that was registered and no longer is returns                      *)
(* ExperimentNotFound(id) and changes nothing.                             *)
(***************************************************************************)
Cleared == last.kind = "cleared"

C17_Step ==
    /\ Cleared' =>
        /\ experiments' = EmptyMap
        /\ IterExperiments(experiments') = EmptyMap
        /\ \A a \in Actors :
            /\ actors'[a].mailbox = actors[a].mailbox
            /\ actors'[a].policy = actors[a].policy
        /\ \A id \in DOMAIN experiments : ~GetExperimentAddress(experiments', id).ok
    /\ \A id \in Ids, msg \in Commands :
        (WasRegistered(id) /\ experiments = EmptyMap /\ SendToExperiment(id, msg)) =>
            /\ last' = Last("replied", 0, msg, ExperimentNotFound(id), FALSE)
            /\ NothingElseChanged

C17_ClearRemovesAll == [][C17_Step]_vars

C17_Witness ==
    /\ Replied
    /\ experiments = EmptyMap
    /\ \A a \in Actors :
        /\ actors[a].state = "running"
        /\ ~actors[a].addr
        /\ Delete \notin {actors[a].mailbox[i] : i \in DOMAIN actors[a].mailbox}
    /\ \E a \in Actors : last.result = ExperimentNotFound(actors[a].id)

(***************************************************************************)
(* C18. create, delete and clear run with exclusive access to the map:     *)
(* while a request of one of these routes holds the guard, no other        *)
(* request holds it, be it another of them, a listing or the dispatch of   *)
(* a command; the map changes only in a step of the one request that       *)
(* holds the guard, and never while a listing or a dispatch holds it.      *)
(* Listings and dispatches hold the guard together.                        *)
(***************************************************************************)
Writes(r) == requests[r].pc # "idle" /\ requests[r].op \in {"create", "delete", "clear"}
Reads(r) == requests[r].pc # "idle" /\ requests[r].op \in {"list", "draw"}

C18_Exclusive ==
    \A r \in Requests : Writes(r) => Holders = {r}

C18_Step ==
    experiments' # experiments =>
        /\ \E r \in Requests : Holders = {r} /\ Writes(r) /\ requests'[r].pc = "done"
        /\ \A r \in Requests : ~Reads(r)

C18_WritersAlone ==
    /\ []C18_Exclusive
    /\ [][C18_Step]_vars

C18_Witness ==
    /\ \E r, q \in Requests :
        /\ requests[r].op = "draw" /\ requests[r].pc = "awaiting"
        /\ requests[q].op = "list" /\ requests[q].pc = "done"
        /\ requests[r].id \in DOMAIN experiments
        /\ actors[experiments[requests[r].id].address].mailbox = <<Draw>>

(***************************************************************************)
(* C19. A draw on a policy that has an active arm does not return          *)
(* NoArmsAvailable, whatever add_arm, reset, disable_arm, enable_arm,      *)
(* delete_arm and update made of the policy before: for each of the three  *)
(* policies, a draw that returned NoArmsAvailable ran on a policy without  *)
(* active arm (a draw leaves the arms' activity as it was).                *)
(***************************************************************************)
DrawnBy(a) == HandledBy(a) /\ last.msg = Draw

C19_DrawFindsActiveArm ==
    \A a \in Actors :
        (DrawnBy(a) /\ ActiveArms(Unwrap(actors[a].policy)) # {}) =>
            /\ last.result.kind = "Ok"
            /\ last.result.arm \in ActiveArms(Unwrap(actors[a].policy))

C19_Witness ==
    \E a \in Actors :
        /\ DrawnBy(a)
        /\ last.result = OkArm(1)
        /\ LET p == Unwrap(actors[a].policy)
           IN  /\ p.type = "ThomsonSampling"
               /\ ActiveArms(p) = {1}
               /\ p.arms[1].beta = EPS

(***************************************************************************)
(* C20. A draw on a policy without active arm (no arm at all, or arms that *)
(* are all disabled) returns NoArmsAvailable, for each of the three        *)
(* policies, and the error is not fatal: the statistics of every arm are   *)
(* what they were, the actor still runs and holds its policy, and every    *)
(* command handled next gives what the policy's method gives on that       *)
(* policy.                                                                 *)
(***************************************************************************)
C20_Step ==
    \A a \in Actors :
        (DrawnBy(a)' /\ actors[a].policy # None
                     /\ ActiveArms(Unwrap(actors[a].policy)) = {}) =>
            /\ last'.result = NoArmsAvailable
            /\ actors'[a].state = "running"
            /\ actors'[a].policy # None
            /\ PolicyStats(Unwrap(actors'[a].policy)) = PolicyStats(Unwrap(actors[a].policy))
            /\ \A msg \in PolicyCommands :
                  {<<o.policy, o.result>> : o \in HandleMsg(actors'[a].policy, msg)}
                    = {<<Some(x.policy), x.result>> :
                          x \in Applied(Unwrap(actors'[a].policy), msg)}

C20_NoArmsNotFatal == [][C20_Step]_vars

C20_Witness ==
    \E a \in Actors :
        /\ DrawnBy(a)
        /\ last.result = NoArmsAvailable
        /\ LET p == Unwrap(actors[a].policy)
           IN  /\ DOMAIN p.arms = {0, 1}
               /\ ActiveArms(p) = {}
               /\ p.type = "ThomsonSampling"

(***************************************************************************)
(* C21, as stated.  An arm that was disabled is returned by no draw until  *)
(* enable_arm is called for it, whatever else is called meanwhile: a step  *)
(* that starts with the arm x held and inactive, and that is not a call of *)
(* enable_arm(x), ends in a policy none of whose draws returns x.          *)
(***************************************************************************)
NoDrawReturns(a, x) ==
    \A o \in PolicyDraw(Unwrap(actors[a].policy)) : o.result # OkArm(x)

C21_Step ==
    \A a \in Actors :
        (actors[a].policy # None /\ actors'[a].policy # None) =>
            \A x \in DOMAIN Unwrap(actors[a].policy).arms :
                (/\ ~Unwrap(actors[a].policy).arms[x].is_active
                 /\ ~(HandledBy(a)' /\ last'.msg = EnableArm(x)))
                    => NoDrawReturns(a, x)'

C21_DisabledNotDrawn == [][C21_Step]_vars

(***************************************************************************)
(* C22, as stated.  add_arm returns a handle that no arm of the policy     *)
(* uses: a step in which add_arm is handled adds exactly the returned      *)
(* handle to the arms and leaves every arm the policy held as it was, so   *)
(* that the statistics list one arm more.                                  *)
(***************************************************************************)
C22_Step ==
    \A a \in Actors :
        (HandledBy(a)' /\ last'.msg.type = "AddArm" /\ actors[a].policy # None) =>
            LET p == Unwrap(actors[a].policy)
                q == Unwrap(actors'[a].policy)
                h == last'.result.arm
            IN  /\ last'.result.kind = "Ok"
                /\ h \notin DOMAIN p.arms
                /\ DOMAIN q.arms = DOMAIN p.arms \cup {h}
                /\ \A x \in DOMAIN p.arms : q.arms[x] = p.arms[x]
                /\ Cardinality(DOMAIN PolicyStats(q)) = Cardinality(DOMAIN PolicyStats(p)) + 1

C22_FreshHandle == [][C22_Step]_vars

(***************************************************************************)
(* C23.  How the pulls reported for the arms follow the commands.  A step  *)
(* in which the actor a handles a command on its policy p leaves the       *)
(* policy q; start(x) is what the pulls of an arm that is created or reset *)
(* by the step count from.  An update that succeeds adds one to the pulls  *)
(* of its arm; a batch adds, for the updates applied (those before the     *)
(* first one for an arm the policy does not hold, in an ascending order of *)
(* the timestamps), one each to the pulls of their arms; add_arm and reset *)
(* make the pulls of their arms start(x); nothing else changes the pulls   *)
(* of an arm.                                                              *)
(***************************************************************************)
Pulls(p, x) == PolicyStats(p)[x].pulls

\* The numbers of updates of v applied to each arm when the first k of them are.
AppliedTo(v, k, x) == Cardinality({i \in 1..k : v[i][2] = x})

BatchPulls(p, q, msg, result) ==
    \E v \in Arrangements(msg.updates) :
        /\ IsAscending(v)
        /\ \E k \in 0..Len(v) :
              /\ \A i \in 1..k : v[i][2] \in DOMAIN p.arms
              /\ IF k = Len(v) THEN result = Ok
                 ELSE v[k + 1][2] \notin DOMAIN p.arms /\ result = ArmNotFound(v[k + 1][2])
              /\ \A x \in DOMAIN q.arms : Pulls(q, x) = Pulls(p, x) + AppliedTo(v, k, x)

PullsFollow(a, given) ==
    LET p == Unwrap(actors[a].policy)
        q == Unwrap(actors'[a].policy)
        msg == last'.msg
        result == last'.result
        kept == (DOMAIN p.arms) \cap (DOMAIN q.arms)
        both == IsSome(msg.reward) /\ IsSome(msg.count)
        start == IF ~given THEN 0
                 ELSE IF msg.type = "AddArm" THEN UnwrapOrDefault(msg.count)
                 ELSE IF p.type = "ThomsonSampling" /\ ~both THEN 0
                 ELSE UnwrapOrDefault(msg.count)
    IN  CASE msg.type = "AddArm" ->
                /\ Pulls(q, result.arm) = start
                /\ \A x \in kept \ {result.arm} : Pulls(q, x) = Pulls(p, x)
          [] msg.type = "Reset" /\ result = Ok ->
                \A x \in kept :
                    Pulls(q, x) = IF msg.arm_id = None THEN 0
                                  ELSE IF msg.arm_id = Some(x) THEN start
                                  ELSE Pulls(p, x)
          [] msg.type = "Update" /\ result = Ok ->
                \A x \in kept :
                    Pulls(q, x) = Pulls(p, x) + (IF msg.arm_id = Some(x) THEN 1 ELSE 0)
          [] msg.type = "UpdateBatch" ->
                DOMAIN q.arms = DOMAIN p.arms /\ BatchPulls(p, q, msg, result)
          [] OTHER -> \A x \in kept : Pulls(q, x) = Pulls(p, x)

PullsStep(given) ==
    \A a \in Actors :
        (HandledBy(a)' /\ actors[a].policy # None /\ actors'[a].policy # None) =>
            PullsFollow(a, given)

(***************************************************************************)
(* C23, as stated.  The pulls of an arm are the number of updates that     *)
(* succeeded for it since it was created or last reset: they are 0 when    *)
(* the arm is created or reset, and every update applied adds one.         *)
(***************************************************************************)
C23_PullsAreUpdates == [][PullsStep(FALSE)]_vars

(***************************************************************************)
(* C23, amended.  The pulls of an arm are the count the arm was created or *)
(* last reset with (0 for a reset without count, and for a reset of a      *)
(* Thompson Sampling arm without both statistics) plus the number of       *)
(* updates, single or of a batch, applied to it since.                     *)
(***************************************************************************)
C23_PullsFromCount == [][PullsStep(TRUE)]_vars

\* A batch of two updates was applied to the arm that was reset with count 1.
C23_Witness ==
    \E a \in Actors :
        /\ HandledBy(a)
        /\ last.msg = UpdateBatch(<<<<1, 0, 1>>, <<0, 0, 0>>>>)
        /\ last.result = Ok
        /\ Pulls(Unwrap(actors[a].policy), 0) = 3

(***************************************************************************)
(* C24.  On an epsilon-greedy or UCB policy, the statistics read right     *)
(* after add_arm(r, n) was handled report the arm of the returned handle   *)
(* with pulls n and mean_reward r, active; read right after the reset of   *)
(* an arm with cumulative_reward r and count n they report that arm with   *)
(* pulls n and mean_reward r.                                              *)
(***************************************************************************)
C24_StatsAfterAddOrReset ==
    \A a \in Actors :
        (/\ HandledBy(a)
         /\ last.result.kind = "Ok"
         /\ actors[a].policy # None
         /\ Unwrap(actors[a].policy).type \in {"EpsilonGreedy", "Ucb"}) =>
            LET stats == PolicyStats(Unwrap(actors[a].policy))
                r == RatOfInt(Unwrap(last.msg.reward))
                n == Unwrap(last.msg.count)
            IN  /\ last.msg.type = "AddArm" =>
                    /\ last.result.arm \in DOMAIN stats
                    /\ stats[last.result.arm] =
                           [pulls |-> n, mean_reward |-> r, is_active |-> TRUE]
                /\ (/\ last.msg.type = "Reset"
                    /\ IsSome(last.msg.arm_id)
                    /\ IsSome(last.msg.reward)
                    /\ IsSome(last.msg.count)) =>
                    /\ Unwrap(last.msg.arm_id) \in DOMAIN stats
                    /\ stats[Unwrap(last.msg.arm_id)].pulls = n
                    /\ stats[Unwrap(last.msg.arm_id)].mean_reward = r

\* A disabled UCB arm is reset with reward 3 and count 1, and stays disabled.
C24_Witness ==
    \E a \in Actors :
        /\ HandledBy(a)
        /\ last.msg = Reset(Some(0), Some(3), Some(1))
        /\ last.result = Ok
        /\ Unwrap(actors[a].policy).type = "Ucb"
        /\ PolicyStats(Unwrap(actors[a].policy))[0] =
               [pulls |-> 1, mean_reward |-> RatOfInt(3), is_active |-> FALSE]

(***************************************************************************)
(* C25.  A batch is applied in the ascending order of its timestamps,      *)
(* whatever order it was submitted in.  The policy an UpdateBatch leaves   *)
(* is the policy that single updates leave when the updates of the batch   *)
(* are applied one after the other in an ascending order of their          *)
(* timestamps, up to the first one that fails, whose error is the result   *)
(* of the batch.                                                           *)
(***************************************************************************)
RECURSIVE OneByOne(_, _, _)
OneByOne(p, v, k) ==
    IF k = 0 THEN p
    ELSE PolicyUpdate(OneByOne(p, v, k - 1), v[k][1], v[k][2], v[k][3]).policy

C25_Step ==
    \A a \in Actors :
        (/\ HandledBy(a)'
         /\ last'.msg.type = "UpdateBatch"
         /\ actors[a].policy # None) =>
            LET p == Unwrap(actors[a].policy)
            IN  \E v \in Arrangements(last'.msg.updates) :
                    /\ \A i, j \in 1..Len(v) : i < j => v[i][1] <= v[j][1]
                    /\ \E k \in 0..Len(v) :
                          /\ \A i \in 1..k :
                                PolicyUpdate(OneByOne(p, v, i - 1),
                                             v[i][1], v[i][2], v[i][3]).result = Ok
                          /\ actors'[a].policy = Some(OneByOne(p, v, k))
                          /\ IF k = Len(v)
                             THEN last'.result = Ok
                             ELSE /\ last'.result # Ok
                                  /\ last'.result =
                                        PolicyUpdate(OneByOne(p, v, k), v[k + 1][1],
                                                     v[k + 1][2], v[k + 1][3]).result

C25_BatchInTimestampOrder == [][C25_Step]_vars

\* A batch submitted with the later update first was applied to a Thompson
\* Sampling arm that discounts: the arm was last discounted to the later time.
C25_Witness ==
    \E a \in Actors :
        /\ HandledBy(a)
        /\ last.msg = UpdateBatch(<<<<1, 0, 1>>, <<0, 0, 0>>>>)
        /\ last.result = Ok
        /\ LET p == Unwrap(actors[a].policy)
           IN  /\ p.type = "ThomsonSampling"
               /\ p.halflife_seconds = Some(1)
               /\ p.arms[0].last_ts = 1
               /\ p.arms[0].count = 2

(***************************************************************************)
(* C26.  reset of a named arm, disable_arm, enable_arm, delete_arm and     *)
(* update for a handle the policy does not hold return ArmNotFound with    *)
(* that handle and leave the policy as it was.  delete_arm for a handle    *)
(* the policy holds returns Ok and removes the arm, and a second           *)
(* delete_arm for it then returns ArmNotFound.                             *)
(***************************************************************************)
ArmCommandTypes == {"Reset", "DisableArm", "EnableArm", "DeleteArm", "Update"}

C26_Step ==
    \A a \in Actors :
        (/\ HandledBy(a)'
         /\ actors[a].policy # None
         /\ last'.msg.type \in ArmCommandTypes
         /\ IsSome(last'.msg.arm_id)) =>
            LET p == Unwrap(actors[a].policy)
                x == Unwrap(last'.msg.arm_id)
            IN  /\ x \notin DOMAIN p.arms =>
                    /\ last'.result = ArmNotFound(x)
                    /\ actors'[a].policy = actors[a].policy
                /\ (x \in DOMAIN p.arms /\ last'.msg.type = "DeleteArm") =>
                    /\ last'.result = Ok
                    /\ actors'[a].policy # None
                    /\ x \notin DOMAIN Unwrap(actors'[a].policy).arms
                    /\ \A o \in HandleMsg(actors'[a].policy, DeleteArm(x)) :
                          /\ o.result = ArmNotFound(x)
                          /\ o.policy = actors'[a].policy

C26_ArmNotFound == [][C26_Step]_vars

\* delete_arm(0) failed on a policy that still holds arm 1: arm 0 was deleted before.
C26_Witness ==
    \E a \in Actors :
        /\ HandledBy(a)
        /\ last.msg = DeleteArm(0)
        /\ last.result = ArmNotFound(0)
        /\ DOMAIN Unwrap(actors[a].policy).arms = {1}

(***************************************************************************)
(* C27, as stated.  Two epsilon-greedy or UCB policies created with the    *)
(* same seed and given the same commands hold the same arms with the same  *)
(* statistics, and their generators give the same numbers; each keeps its  *)
(* arms in a map of its own.  A draw of the one and of the other returns   *)
(* the same arm: whatever the orders the two maps iterate in, the draw     *)
(* with the same random numbers has the same result.                       *)
(***************************************************************************)
DrawWith(p, order, below, pick) ==
    IF p.type = "Ucb"
    THEN {o.result : o \in UcbDrawWith(p, order, pick)}
    ELSE {EpsilonGreedyDraw(p, order, below, pick)}

C27_SeededDeterministic ==
    \A a \in Actors :
        (/\ actors[a].policy # None
         /\ Unwrap(actors[a].policy).type \in {"EpsilonGreedy", "Ucb"}
         /\ IsSome(Unwrap(actors[a].policy).seed)) =>
            LET p == Unwrap(actors[a].policy)
            IN  \A o1, o2 \in IterOrders(p.arms), below \in BOOLEAN, pick \in Picks(p) :
                    DrawWith(p, o1, below, pick) = DrawWith(p, o2, below, pick)

(***************************************************************************)
(* C28, as stated.  The snapshot of a policy, serialized and deserialized, *)
(* is a policy again, whose statistics are those of the original (the same *)
(* handles with the same pulls, mean_reward and is_active) and whose seed  *)
(* and parameters are the original's.                                      *)
(***************************************************************************)
C28_RoundTrip ==
    \A a \in Actors :
        actors[a].policy # None =>
            LET p == Unwrap(actors[a].policy)
                d == DeserializePolicy(SerializePolicy(CloneBox(p)))
            IN  /\ d # None
                /\ PolicyStats(Unwrap(d)) = PolicyStats(p)
                /\ PolicyTypeOf(Unwrap(d)) = PolicyTypeOf(p)

(***************************************************************************)
(* C29.  The exploit branch of the epsilon-greedy draw returns an active   *)
(* arm whose reward no active arm exceeds, whatever order the arms are     *)
(* iterated in, and never a disabled arm, whatever its reward.  A draw on  *)
(* a policy with epsilon 0 takes that branch: the arm it returned is       *)
(* active and of maximal reward among the active arms.                     *)
(***************************************************************************)
BestActive(p) ==
    {x \in DOMAIN p.arms :
        /\ p.arms[x].is_active
        /\ \A y \in DOMAIN p.arms :
              p.arms[y].is_active => RatLeq(p.arms[y].reward, p.arms[x].reward)}

C29_ExploitBest ==
    \A a \in Actors :
        (actors[a].policy # None /\ Unwrap(actors[a].policy).type = "EpsilonGreedy") =>
            LET p == Unwrap(actors[a].policy)
            IN  /\ \A order \in IterOrders(p.arms), pick \in Picks(p) :
                      LET r == EpsilonGreedyDraw(p, order, FALSE, pick)
                      IN  IF BestActive(p) = {} THEN r = NoArmsAvailable
                          ELSE r.kind = "Ok" /\ r.arm \in BestActive(p)
                /\ (DrawnBy(a) /\ p.epsilon = RatOfInt(0) /\ last.result.kind = "Ok") =>
                      last.result.arm \in BestActive(p)

\* A draw with epsilon 0 returned arm 1 while the disabled arm 0 has the higher reward.
C29_Witness ==
    \E a \in Actors :
        /\ DrawnBy(a)
        /\ last.result = OkArm(1)
        /\ LET p == Unwrap(actors[a].policy)
           IN  /\ p.epsilon = RatOfInt(0)
               /\ DOMAIN p.arms = {0, 1}
               /\ ~p.arms[0].is_active
               /\ RatLess(p.arms[1].reward, p.arms[0].reward)

(***************************************************************************)
(* C30, as stated.  Among several active arms that share the maximum, the  *)
(* draw returns the one that was inserted first.  A policy that holds the  *)
(* arms 0 and 1 was given arm 0 before arm 1 (add_arm returns 1 only while *)
(* it holds one arm, and returns 0 only while it holds none), so the first *)
(* inserted of the best arms is the one of the least handle: a draw with   *)
(* epsilon 0, which compares the rewards, returned that arm.               *)
(***************************************************************************)
FirstInserted(arms) == CHOOSE x \in arms : \A y \in arms : x <= y

C30_FirstOfTies ==
    \A a \in Actors :
        (/\ DrawnBy(a)
         /\ Unwrap(actors[a].policy).type = "EpsilonGreedy"
         /\ Unwrap(actors[a].policy).epsilon = RatOfInt(0)
         /\ last.result.kind = "Ok") =>
            last.result.arm = FirstInserted(BestActive(Unwrap(actors[a].policy)))

(***************************************************************************)
(* C31.  The warm-up of the UCB draw.  A draw on a UCB policy that holds   *)
(* an active arm that was never pulled (count 0) returns such an arm,      *)
(* whatever the rewards and the counts of the other arms, and takes it     *)
(* from the random generator, which advances.  A draw on a UCB policy      *)
(* whose active arms were all pulled, when there is one, returns an active *)
(* arm, by the scores: the generator is not used.  A draw changes no arm.  *)
(***************************************************************************)
WarmArms(p) == {x \in ActiveArms(p) : p.arms[x].count = 0}

C31_Step ==
    \A a \in Actors :
        (/\ DrawnBy(a)'
         /\ actors[a].policy # None
         /\ Unwrap(actors[a].policy).type = "Ucb") =>
            LET p == Unwrap(actors[a].policy)
                q == Unwrap(actors'[a].policy)
            IN  /\ q.arms = p.arms
                /\ WarmArms(p) # {} =>
                      /\ last'.result.kind = "Ok"
                      /\ last'.result.arm \in WarmArms(p)
                      /\ q.rng = p.rng + 1
                /\ (WarmArms(p) = {} /\ ActiveArms(p) # {}) =>
                      /\ last'.result.kind = "Ok"
                      /\ last'.result.arm \in ActiveArms(p)
                      /\ q.rng = p.rng

C31_WarmUpFirst == [][C31_Step]_vars

\* A draw returned arm 0, never pulled, while the active arm 1 has the prior
\* of two pulls and the higher reward.
C31_Witness ==
    \E a \in Actors :
        /\ DrawnBy(a)
        /\ last.result = OkArm(0)
        /\ LET p == Unwrap(actors[a].policy)
           IN  /\ p.type = "Ucb"
               /\ ActiveArms(p) = {0, 1}
               /\ p.arms[0].count = 0
               /\ p.arms[1].count = 2
               /\ RatLess(p.arms[0].reward, p.arms[1].reward)

(***************************************************************************)
(* C32, as stated.  In every state of a Thompson Sampling policy, whatever *)
(* add_arm, reset, update and draw were called with, the alpha and the     *)
(* beta of each of its arms are both at least EPS.                         *)
(***************************************************************************)
C32_AlphaBetaFloor ==
    \A a \in Actors :
        (actors[a].policy # None /\ Unwrap(actors[a].policy).type = "ThomsonSampling") =>
            \A x \in DOMAIN Unwrap(actors[a].policy).arms :
                /\ RatLeq(EPS, Unwrap(actors[a].policy).arms[x].alpha)
                /\ RatLeq(EPS, Unwrap(actors[a].policy).arms[x].beta)

(***************************************************************************)
(* C33, as stated.  The last_ts of a Thompson Sampling arm never decreases *)
(* over draws and updates, whatever the timestamps of the updates: a draw  *)
(* or an update leaves every arm with a last_ts that is not before the one *)
(* it had, and the decay an update discounts its arm with is at most 1.    *)
(***************************************************************************)
C33_Step ==
    \A a \in Actors :
        (/\ HandledBy(a)'
         /\ last'.msg.type \in {"Draw", "Update"}
         /\ actors[a].policy # None
         /\ Unwrap(actors[a].policy).type = "ThomsonSampling") =>
            LET p == Unwrap(actors[a].policy)
                q == Unwrap(actors'[a].policy)
            IN  /\ \A x \in DOMAIN p.arms :
                      x \in DOMAIN q.arms /\ q.arms[x].last_ts >= p.arms[x].last_ts
                /\ (last'.msg.type = "Update" /\ last'.result = Ok) =>
                      RatLeq(DecayWeight(p.arms[Unwrap(last'.msg.arm_id)],
                                         last'.msg.timestamp),
                             RatOfInt(1))

C33_LastTsMonotone == [][C33_Step]_vars

(***************************************************************************)
(* C34.  The case of the claim, an active arm whose sampling fails during  *)
(* a draw, does not arise: the draw discounts every active arm before it   *)
(* samples, the discount floors alpha and beta at EPS, and Beta::new       *)
(* accepts every pair of numbers above zero.  Whatever the priors, the     *)
(* rewards and the timestamps made of the arms, in the policy a draw       *)
(* leaves every active arm can be sampled, and the arms that could not     *)
(* before the draw are among those the draw can return.                    *)
(***************************************************************************)
C34_SamplingNeverFails ==
    \A a \in Actors :
        (actors[a].policy # None /\ Unwrap(actors[a].policy).type = "ThomsonSampling") =>
            LET p == Unwrap(actors[a].policy)
            IN  \A o \in ThomsonSamplingDraw(p) :
                    /\ \A x \in ActiveArms(o.policy) :
                          ThomsonSamplingArmSample(o.policy.arms[x])
                    /\ \A x \in ActiveArms(p) :
                          OkArm(x) \in {r.result : r \in ThomsonSamplingDraw(p)}

(***************************************************************************)
(* C35.  A batch with an update for an arm the policy does not hold.  The  *)
(* updates are applied in an ascending order v of their timestamps; when   *)
(* v[k] is the first of them whose arm is absent, the policy the batch     *)
(* leaves is the one the single updates v[1] .. v[k-1] leave, which stays  *)
(* the actor's policy: each arm was updated as many times as it has        *)
(* updates before v[k], and v[k] and the updates after it changed nothing. *)
(* The result is ArmNotFound with the arm of v[k].                         *)
(***************************************************************************)
FirstAbsent(p, v) ==
    CHOOSE k \in 1..Len(v) :
        /\ v[k][2] \notin DOMAIN p.arms
        /\ \A i \in 1..(k - 1) : v[i][2] \in DOMAIN p.arms

C35_Step ==
    \A a \in Actors :
        (/\ HandledBy(a)'
         /\ last'.msg.type = "UpdateBatch"
         /\ actors[a].policy # None
         /\ \E i \in 1..Len(last'.msg.updates) :
               last'.msg.updates[i][2] \notin DOMAIN Unwrap(actors[a].policy).arms) =>
            LET p == Unwrap(actors[a].policy)
            IN  /\ actors'[a].policy # None
                /\ \E v \in Arrangements(last'.msg.updates) :
                      LET k == FirstAbsent(p, v)
                          q == Unwrap(actors'[a].policy)
                      IN  /\ IsAscending(v)
                          /\ last'.result = ArmNotFound(v[k][2])
                          /\ q = OneByOne(p, v, k - 1)
                          /\ DOMAIN q.arms = DOMAIN p.arms
                          /\ \A x \in DOMAIN p.arms :
                                q.arms[x].count = p.arms[x].count + AppliedTo(v, k - 1, x)

C35_BatchStopsAtAbsentArm == [][C35_Step]_vars

\* The batch submitted as (1, arm 1), (0, arm 0) met a policy that holds arm 0
\* only: the update of arm 0, the earlier one, was applied to the arm (which
\* has its prior of one pull and this one), the update of arm 1 failed.
C35_Witness ==
    \E a \in Actors :
        /\ HandledBy(a)
        /\ last.msg = UpdateBatch(<<<<1, 1, 1>>, <<0, 0, 0>>>>)
        /\ last.result = ArmNotFound(1)
        /\ LET p == Unwrap(actors[a].policy)
           IN  /\ DOMAIN p.arms = {0}
               /\ p.arms[0].count = 2

(***************************************************************************)
(* C36, as stated.  At every moment at most one live Experiment actor      *)
(* exists per experiment id, after any sequence of create_experiment,      *)
(* load_experiments, delete_experiment and clear: no two actors that run   *)
(* have the same id, so that the SaveState messages for an id all come     *)
(* from one actor.                                                         *)
(***************************************************************************)
C36_OneActorPerId ==
    \A a, b \in Actors :
        (a # b /\ actors[a].state = "running" /\ actors[b].state = "running") =>
            actors[a].id # actors[b].id

(***************************************************************************)
(* C37.  What clear() leaves alone.  A step of clear sends nothing: every  *)
(* actor's mailbox is what it was (no Delete), and so is the state store's *)
(* (no DeleteState); the store's catalog is unchanged; every actor that    *)
(* ran still runs, with the policy it had.  reload(given) says what a      *)
(* load_experiments answered from the catalog as clear left it registers,  *)
(* when there are actors left to start: the cleared experiments, all of    *)
(* them (given = FALSE), or those of them the catalog has an entry for and *)
(* no other (given = TRUE).                                                *)
(***************************************************************************)
ClearLeaves(given) ==
    last'.kind = "cleared" =>
        /\ storeMailbox' = storeMailbox
        /\ storage' = storage
        /\ experiments' = EmptyMap
        /\ \A a \in Actors :
              /\ actors'[a].mailbox = actors[a].mailbox
              /\ actors'[a].state = actors[a].state
              /\ actors'[a].policy = actors[a].policy
              /\ actors'[a].id = actors[a].id
        /\ LET catalog == HandleLoadAllStates(storage', LoadAllStates).reply
               free == {a \in Actors : actors'[a].state = "none"}
               registered == DOMAIN CreateAll(experiments', actors', catalog).experiments
           IN  Cardinality(DOMAIN catalog) <= Cardinality(free) =>
                  \A id \in DOMAIN experiments :
                      IF given THEN id \in registered <=> id \in DOMAIN storage
                      ELSE id \in registered

Pulled(p) == Cardinality(DOMAIN p.arms) + BagCardinality([x \in DOMAIN p.arms |-> p.arms[x].count])

C38_Step ==
    last'.kind # "boot" =>
        /\ (/\ storeMailbox # <<>>
            /\ storeMailbox' = Tail(storeMailbox)
            /\ Head(storeMailbox).type = "SaveState") =>
               /\ Head(storeMailbox).experiment_id \in DOMAIN storage'
               /\ storage'[Head(storeMailbox).experiment_id] = Unwrap(Head(storeMailbox).policy)
        /\ \A id \in DOMAIN storage' :
              MapGet(storage, id) # Some(storage'[id]) =>
                  /\ storeMailbox # <<>>
                  /\ storeMailbox' = Tail(storeMailbox)
                  /\ Head(storeMailbox) =
                        SaveState(id, storage'[id], Head(storeMailbox).from)
                  /\ id \in DOMAIN storage => Pulled(storage[id]) <= Pulled(storage'[id])

C38_InOrder ==
    \A a \in Actors :
        (actors[a].state = "running" /\ actors[a].policy # None) =>
            LET id == actors[a].id
                mine == FromActor(a, "SaveState")
            IN  /\ \A i, j \in mine :
                      i < j => Pulled(Unwrap(storeMailbox[i].policy))
                                  <= Pulled(Unwrap(storeMailbox[j].policy))
                /\ \A i \in mine :
                      /\ storeMailbox[i].experiment_id = id
                      /\ Pulled(Unwrap(storeMailbox[i].policy))
                            <= Pulled(Unwrap(actors[a].policy))
                      /\ id \in DOMAIN storage =>
                            Pulled(storage[id]) <= Pulled(Unwrap(storeMailbox[i].policy))
                /\ id \in DOMAIN storage =>
                      Pulled(storage[id]) <= Pulled(Unwrap(actors[a].policy))

C38_SnapshotsInOrder == [][C38_Step]_vars /\ []C38_InOrder

\* The entry of an experiment is a snapshot of its policy, a later snapshot
\* of it waits in the mailbox, and the policy has changed again since.
C38_Witness ==
    \E a \in Actors :
        /\ actors[a].state = "running"
        /\ actors[a].policy # None
        /\ actors[a].id \in DOMAIN storage
        /\ \E i \in FromActor(a, "SaveState") :
              /\ Pulled(storage[actors[a].id]) < Pulled(Unwrap(storeMailbox[i].policy))
              /\ Pulled(Unwrap(storeMailbox[i].policy)) < Pulled(Unwrap(actors[a].policy))

(***************************************************************************)
(* C39.  An actor without policy sends no snapshot.  A save tick that      *)
(* fires while the actor holds no policy sends nothing: the state store's  *)
(* mailbox, its catalog, with the entry of the actor's id if there is one, *)
(* and the actors are what they were.  Every SaveState in the mailbox      *)
(* carries a policy.                                                       *)
(***************************************************************************)
C39_Step ==
    \A a \in Actors :
        (last'.kind = "saved" /\ last'.actor = a /\ actors[a].policy = None) =>
            /\ storeMailbox' = storeMailbox
            /\ storage' = storage
            /\ MapGet(storage', actors[a].id) = MapGet(storage, actors[a].id)
            /\ actors' = actors

C39_Carries ==
    \A i \in 1..Len(storeMailbox) :
        storeMailbox[i].type = "SaveState" => storeMailbox[i].policy # None

C39_NoPolicyNoSnapshot == [][C39_Step]_vars /\ []C39_Carries

\* The save tick of an actor fired before the answer to its LoadState was
\* installed: the store has an entry for its id, the actor no policy yet.
C39_Witness ==
    \E a \in Actors :
        /\ last.kind = "saved"
        /\ last.actor = a
        /\ ~last.had_policy
        /\ actors[a].state = "running"
        /\ actors[a].policy = None
        /\ actors[a].id \in DOMAIN storage
        /\ FromActor(a, "SaveState") = {}

(***************************************************************************)
(* C40.  An actor started without policy asks the state store once.  The   *)
(* actor a has at most one LoadState in the store's mailbox, the one its   *)
(* start sent, and none once it was answered.  An actor gets a policy      *)
(* where it had none only in the step that installs the answer to that     *)
(* LoadState, and only when the answer is a policy: after an answer of     *)
(* None (the store had no entry for the id when it handled the LoadState)  *)
(* the actor has nothing left to wait for and stays without policy for as  *)
(* long as it runs, and every policy command it handles is answered        *)
(* NoPolicy and leaves it so.                                              *)
(***************************************************************************)
Unanswered(a) == actors[a].state = "running" /\ actors[a].load.st = "sent"

C40_AsksOnce ==
    \A a \in Actors :
        /\ Cardinality(FromActor(a, "LoadState")) <= 1
        /\ Unanswered(a) => Cardinality(FromActor(a, "LoadState")) = 1
        /\ (actors[a].state = "running" /\ ~Unanswered(a)) => FromActor(a, "LoadState") = {}
        /\ (actors[a].state = "running" /\ actors[a].load.st # "idle") =>
              actors[a].policy = None
        /\ \A i \in FromActor(a, "LoadState") : storeMailbox[i].experiment_id = actors[a].id

C40_Step ==
    \A a \in Actors :
        /\ (/\ actors[a].state = "running"
            /\ actors'[a].state = "running"
            /\ actors[a].policy = None
            /\ actors'[a].policy # None) =>
               /\ actors[a].load.st = "ready"
               /\ actors[a].load.val # None
               /\ actors'[a].policy = actors[a].load.val
               /\ actors'[a].load = NoLoad
        /\ (/\ actors[a].state = "running"
            /\ actors'[a].state = "running"
            /\ actors[a].policy = None
            /\ actors[a].load.st \in {"idle", "ready"}) =>
               /\ actors'[a].load.st \in {"idle", "ready"}
               /\ (actors[a].load.st = "idle" \/ actors[a].load.val = None) =>
                     /\ actors'[a].policy = None
                     /\ (HandledBy(a)' /\ last'.msg.type \in PolicyCommandTypes) =>
                           last'.result = NoPolicy

=============================================================================
